---- MODULE Spec2Model ----
(***************************************************************************)
(* Cashbook PWA: the ledger synchronisation and access-reconciliation      *)
(* core.  The client keeps a durable offline queue (lib/offlineQueue.ts),  *)
(* a sync effect that flushes it (App.tsx) and a realtime listener on the  *)
(* signed-in user's own membership rows; the server (Supabase/Postgres)    *)
(* enforces entry, delete-request and membership rules with triggers, RLS  *)
(* policies and security-definer RPCs.                                     *)
(***************************************************************************)
EXTENDS Integers, Sequences, FiniteSets, TLC

\* ---------------------------------------------------------------- bounds
MaxOps == 2          \* enqueues over one behaviour
MaxEntries == 2      \* rows of public.entries
MaxRuns == 2         \* sync runs representable at the same time
MaxPushes == 1       \* realtime notifications in flight
MaxLoads == 1        \* listener-started workspace loads in flight
MaxRequests == 2     \* rows of public.delete_requests
MaxAccessRequests == 2   \* rows of public.workspace_access_requests
MaxTicks == 95       \* half hours after 2023-12-31T00:00Z an entry can be dated

\* ------------------------------------------------------------ the domain
Users == {"u1", "u2"}
Workspaces == {"w1", "w2"}
CategoryIds == {"c1", "c2"}
Directions == {"cash_in", "cash_out"}
NetOutcomes == {"ok", "neterr", "lost"}

\* The device's user and the other member acting on the server.
Me == "u1"
Admin == "u2"

\* Entries, categories and delete requests live in workspace w1, and it is
\* the workspace whose members are managed.
ServerWs == "w1"

NoRow ==
  [role |-> "none", access_disabled |-> FALSE, can_delete_entries |-> FALSE,
   can_manage_categories |-> FALSE, can_manage_users |-> FALSE,
   dashboard_scope |-> "shift"]

EditorRow ==
  [role |-> "editor", access_disabled |-> FALSE, can_delete_entries |-> FALSE,
   can_manage_categories |-> FALSE, can_manage_users |-> FALSE,
   dashboard_scope |-> "shift"]

IdleRun ==
  [pc |-> "idle", snap |-> <<>>, i |-> 0, sent |-> <<>>, remaining |-> <<>>,
   processed |-> 0, outcomes |-> <<>>, cancelled |-> FALSE, deauth |-> FALSE,
   stale |-> FALSE, ws |-> ""]

NoSubmit == "none"

NoDashboard == [timezone |-> "", entry_at |-> 0, key |-> ""]

NoSave == [online |-> FALSE, result |-> "init", enqueued |-> FALSE, notice |-> ""]

VARIABLES
  \* ---- client (one device)
  online,                   \* useOnlineStatus()
  userId,                   \* session?.user.id ?? ""
  context,                  \* context?.workspace.id ?? ""  (workspaceId)
  lastWs,                   \* localStorage last-workspace key of the user
  queue,                    \* localStorage["cashbook.offline.queue.v1"]
  nextId,                   \* source of fresh queue ids
  syncRunning,              \* syncRunningRef.current
  runs,                     \* syncNow activations (flushQueue locals, closure)
  syncIssue,                \* the sync banner state
  showAccessRevokedPrompt,  \* the recovery prompt
  invalidated,              \* membership invalidated, no context read since
  lastSave,                 \* what the last saveQuickEntry did
  lastSubmit,               \* the server's verdict on the device's last insert into entries
  pushes,                   \* realtime notifications not yet delivered
  loads,                    \* loadWorkspace/bootstrapWorkspace calls in flight
  dashboard,                \* the entry the dashboard last keyed to a day
  \* ---- server
  members,                  \* public.workspace_members
  categories,               \* public.categories
  archiving,                \* categories an archiveCategory call counted no entry for
  entries,                  \* public.entries
  deleteRequests,           \* public.delete_requests
  lastReview,               \* what the last reviewDeleteRequest call returned
  accessRequests            \* public.workspace_access_requests

clientVars ==
  <<online, userId, context, lastWs, queue, nextId, syncRunning, runs,
    syncIssue, showAccessRevokedPrompt, invalidated, lastSave, lastSubmit, pushes, loads,
    dashboard>>
serverVars == <<members, categories, archiving, entries, deleteRequests, lastReview, accessRequests>>
vars == <<clientVars, serverVars>>

\* ------------------------------------------------------- sequence helpers
Ids(s) == [k \in 1..Len(s) |-> s[k].id]

\* the items of s whose outcome is a failure, in order
RECURSIVE FailedOf(_, _)
FailedOf(s, o) ==
  IF s = <<>> \/ o = <<>> THEN <<>>
  ELSE IF Head(o) # "ok" THEN <<Head(s)>> \o FailedOf(Tail(s), Tail(o))
       ELSE FailedOf(Tail(s), Tail(o))

\* ------------------------------------------------- server: authorization
Row(ws, uid) == IF uid \in Users THEN members[ws][uid] ELSE NoRow

\* public.is_workspace_member / is_workspace_admin / can_* as redefined by
\* the access_disabled migration: a disabled row counts as no row.
is_workspace_member_any_row(ws, uid) == Row(ws, uid).role # "none"

is_workspace_member(ws, uid) ==
  Row(ws, uid).role # "none" /\ ~Row(ws, uid).access_disabled

is_workspace_admin(ws, uid) ==
  Row(ws, uid).role = "admin" /\ ~Row(ws, uid).access_disabled

can_manage_users(ws, uid) ==
  /\ Row(ws, uid).role # "none"
  /\ ~Row(ws, uid).access_disabled
  /\ (Row(ws, uid).role = "admin" \/ Row(ws, uid).can_manage_users)

can_manage_categories(ws, uid) ==
  /\ Row(ws, uid).role # "none"
  /\ ~Row(ws, uid).access_disabled
  /\ (Row(ws, uid).role = "admin" \/ Row(ws, uid).can_manage_categories)

can_delete_entries(ws, uid) ==
  /\ Row(ws, uid).role # "none"
  /\ ~Row(ws, uid).access_disabled
  /\ (Row(ws, uid).role = "admin" \/ Row(ws, uid).can_delete_entries)

\* trigger trg_workspace_members_normalize
normalize_member_permissions_off(row) == row

normalize_member_permissions(row) ==
  IF row.role = "admin"
  THEN [row EXCEPT !.can_delete_entries = TRUE, !.can_manage_categories = TRUE,
                   !.can_manage_users = TRUE, !.dashboard_scope = "full"]
  ELSE row

EnabledAdmins(ws) ==
  {u \in Users : members[ws][u].role = "admin" /\ ~members[ws][u].access_disabled}

\* ----------------------------------------------------- server: entries
\* Both categories belong to workspace w1 (entries_category_fk is on
\* (workspace_id, category_id)).
CategoryWorkspace(c) == "w1"

\* trigger trg_entries_enforce_rules, the INSERT path, followed by the RLS
\* check of policy entries_insert_member (BEFORE ROW triggers run first).
enforce_entry_rules_mut(caller, p) ==
  IF ~(CategoryWorkspace(p.cat) = p.ws /\ categories[p.cat].is_active)
    THEN "InvalidCategory"
  ELSE IF p.dir = "cash_out" /\ categories[p.cat].type # "expense"
    THEN "DirectionMismatch"
  ELSE IF ~(is_workspace_member(p.ws, caller) /\ p.by = caller)
    THEN "Unauthorized"
  ELSE "ok"

enforce_entry_rules_authFirst(caller, p) ==
  IF ~(is_workspace_member(p.ws, caller) /\ p.by = caller)
    THEN "Unauthorized"
  ELSE IF ~(CategoryWorkspace(p.cat) = p.ws /\ categories[p.cat].is_active)
    THEN "InvalidCategory"
  ELSE IF p.dir = "cash_out" /\ categories[p.cat].type # "expense"
    THEN "DirectionMismatch"
  ELSE IF p.dir = "cash_in" /\ categories[p.cat].type # "income"
    THEN "DirectionMismatch"
  ELSE "ok"

enforce_entry_rules(caller, p) ==
  IF ~(CategoryWorkspace(p.cat) = p.ws /\ categories[p.cat].is_active)
    THEN "InvalidCategory"
  ELSE IF p.dir = "cash_out" /\ categories[p.cat].type # "expense"
    THEN "DirectionMismatch"
  ELSE IF p.dir = "cash_in" /\ categories[p.cat].type # "income"
    THEN "DirectionMismatch"
  ELSE IF ~(is_workspace_member(p.ws, caller) /\ p.by = caller)
    THEN "Unauthorized"
  ELSE "ok"

\* (deleted_at is modelled by whether it is set)
\* the row the insert persists; catType records the category's type at the
\* moment of the write
NewEntry(p) ==
  [ws |-> p.ws, dir |-> p.dir, cat |-> p.cat, catType |-> categories[p.cat].type,
   by |-> p.by, status |-> "active", deleted_at |-> FALSE, deleted_by |-> ""]

\* services/entries.ts addEntry as the client sees it: the class of the
\* outcome of one submission under network behaviour net.
ErrorClass(res) ==
  CASE res = "ok" -> "ok"
    [] res = "Unauthorized" -> "authorization"
    [] OTHER -> "validation"

addEntryResult(net, caller, p) ==
  IF net = "neterr" \/ net = "lost" THEN "network"
  ELSE ErrorClass(enforce_entry_rules(caller, p))

\* the effect of that submission on public.entries ("lost": the insert
\* commits and only the response is lost)
addEntryRows(net, caller, p) ==
  IF net # "neterr" /\ enforce_entry_rules(caller, p) = "ok"
  THEN Append(entries, NewEntry(p))
  ELSE entries

\* the server's verdict on the insert the device last got through to it; a
\* request that never arrives ("neterr") leaves no verdict
Verdict(net, caller, p) ==
  IF net = "neterr" THEN lastSubmit
  ELSE enforce_entry_rules(caller, p)

\* the entries table of the model has room for the insert
Room(net) == net = "neterr" \/ Len(entries) < MaxEntries

\* ------------------------------------------------ client: offline queue
Payload(op) == [ws |-> op.ws, dir |-> op.dir, cat |-> op.cat, by |-> op.by]

\* lib/offlineQueue.ts enqueueEntry: load, push, save
enqueueEntry_noSave(q, p) == q

enqueueEntry(q, p) ==
  Append(q, [id |-> nextId, ws |-> p.ws, dir |-> p.dir, cat |-> p.cat, by |-> p.by])

queueSize == Len(queue)

\* the effect cleanup of the sync effect (cancelled = true) for every
\* activation started under the dependencies that just changed
CancelRuns(rs) ==
  [k \in DOMAIN rs |-> IF rs[k].pc = "idle" THEN rs[k] ELSE [rs[k] EXCEPT !.cancelled = TRUE]]

\* same, marking the activations running against the workspace that was
\* just de-authorized
RevokeRuns(rs, ws) ==
  [k \in DOMAIN rs |->
     IF rs[k].pc = "idle" THEN rs[k]
     ELSE [rs[k] EXCEPT !.cancelled = TRUE,
                        !.deauth = (rs[k].deauth \/ rs[k].ws = ws),
                        !.stale = (rs[k].stale \/ (rs[k].pc = "loaded" /\ rs[k].ws = ws))]]

\* runs after a state update that sets online/workspaceId/userId
AfterDeps(rs, o, w, u) ==
  IF o # online \/ w # context \/ u # userId THEN CancelRuns(rs) ELSE rs

ActiveRuns == {k \in DOMAIN runs : runs[k].pc # "idle"}
FreeSlots == {k \in DOMAIN runs : runs[k].pc = "idle"}

\* ------------------------------------------------------ client: actions
\* what the quick-entry form can submit: a category the cached list shows
\* for the direction, or one whose type the client is wrong about
QuickChoices ==
  {[dir |-> "cash_in", cat |-> "c1"], [dir |-> "cash_in", cat |-> "c2"],
   [dir |-> "cash_out", cat |-> "c1"]}

\* the browser's online/offline events
SetOnline ==
  /\ online' = ~online
  /\ runs' = CancelRuns(runs)
  /\ UNCHANGED <<dashboard, userId, context, lastWs, queue, nextId, syncRunning, syncIssue, showAccessRevokedPrompt, invalidated, lastSave, lastSubmit, pushes, loads>>
  /\ UNCHANGED serverVars

\* saveQuickEntry, lines 1677-1707: whether the payload goes to the queue,
\* given the online flag and the result of the attempt (if one was made)
saveEnqueues_onTransient(isOnline, res) == ~isOnline \/ res = "network"

saveEnqueues(isOnline, res) == ~isOnline

\* App.tsx saveQuickEntry (without a receipt file)
saveQuickEntry ==
  /\ context # "" /\ userId # ""
  /\ \E ch \in QuickChoices, net \in NetOutcomes :
       LET p == [ws |-> context, dir |-> ch.dir, cat |-> ch.cat, by |-> userId]
           res == IF online THEN addEntryResult(net, userId, p) ELSE "none"
           enq == saveEnqueues(online, res)
       IN
       /\ online \/ net = "neterr"
       /\ Room(net)
       /\ enq => nextId <= MaxOps
       /\ entries' = IF online THEN addEntryRows(net, userId, p) ELSE entries
       /\ lastSubmit' = IF online THEN Verdict(net, userId, p) ELSE lastSubmit
       /\ queue' = IF enq THEN enqueueEntry(queue, p) ELSE queue
       /\ nextId' = IF enq THEN nextId + 1 ELSE nextId
       /\ lastSave' = [online |-> online, result |-> res, enqueued |-> enq,
                       notice |-> IF enq THEN "Saved offline and queued"
                                  ELSE IF res = "ok" THEN "Entry saved" ELSE "error"]
  /\ UNCHANGED <<dashboard, online, userId, context, lastWs, syncRunning, runs,
                 syncIssue, showAccessRevokedPrompt, invalidated, pushes, loads>>
  /\ UNCHANGED <<members, categories, archiving, deleteRequests, lastReview, accessRequests>>

\* the guard at the top of syncNow
SyncSkipped_always == TRUE

SyncSkipped_mut == FALSE

SyncSkipped == syncRunning

\* syncNow, called when the sync effect (re)starts and by its 15 s timer,
\* up to the first await inside flushQueue: loadQueue and the submission of
\* the first queued operation
syncNow ==
  /\ online /\ context # "" /\ userId # ""
  /\ IF SyncSkipped
     THEN UNCHANGED <<syncRunning, runs, syncIssue>>
     ELSE IF queueSize = 0
     THEN /\ syncIssue' = ""
          /\ UNCHANGED <<syncRunning, runs>>
     ELSE /\ FreeSlots # {}
          /\ syncRunning' = TRUE
          /\ LET k == CHOOSE f \in FreeSlots : \A g \in FreeSlots : f <= g IN
             runs' = [runs EXCEPT ![k] =
                        [pc |-> "flush", snap |-> queue, i |-> 1,
                         sent |-> <<queue[1].id>>, remaining |-> <<>>,
                         processed |-> 0, outcomes |-> <<>>, cancelled |-> FALSE,
                         deauth |-> FALSE, stale |-> FALSE, ws |-> context]]
          /\ UNCHANGED syncIssue
  /\ UNCHANGED <<dashboard, online, userId, context, lastWs, queue, nextId,
                 showAccessRevokedPrompt, invalidated, lastSave, lastSubmit, pushes, loads>>
  /\ UNCHANGED serverVars

\* flushQueue's loop body, lines 66-75: what is kept for the next flush
KeepFailed_swapped(remaining, op, res) ==
  IF res = "ok" THEN Append(remaining, op) ELSE remaining

KeepFailed_dropNetwork(remaining, op, res) ==
  IF res # "ok" /\ res # "network" THEN Append(remaining, op) ELSE remaining

KeepFailed_transientOnly(remaining, op, res) ==
  IF res = "network" THEN Append(remaining, op) ELSE remaining

KeepFailed(remaining, op, res) ==
  IF res # "ok" THEN Append(remaining, op) ELSE remaining

\* syncNow after a flush that returned to a run not cancelled: whether it
\* awaits loadWorkspace
ReloadsAfterFlush_always(processed) == TRUE

ReloadsAfterFlush(processed) == processed > 0

\* the finally clause of syncNow, lines 1544-1549: syncRunningRef.current
\* when the run ends, cancelled or not
syncNowFinally_unlessCancelled(cancelled) == cancelled

syncNowFinally(cancelled) == FALSE

\* `processed += 1` after the awaited handler call, lines 67-70
Processed_every(n, res) == n + 1

Processed(n, res) == IF res = "ok" THEN n + 1 ELSE n

\* One turn of flushQueue's loop for activation k: the awaited handler call
\* for snap[i] settles; then either the next operation is submitted or
\* saveQueue(remaining) runs and syncNow continues to its next await.
FlushStep(k) ==
  /\ runs[k].pc = "flush"
  /\ \E net \in NetOutcomes :
       LET r == runs[k]
           op == r.snap[r.i]
           res == addEntryResult(net, userId, Payload(op))
           r2 == [r EXCEPT !.remaining = KeepFailed(r.remaining, op, res),
                           !.processed = Processed(@, res),
                           !.outcomes = Append(@, res)]
       IN
       /\ Room(net)
       /\ entries' = addEntryRows(net, userId, Payload(op))
       /\ lastSubmit' = Verdict(net, userId, Payload(op))
       /\ IF r.i < Len(r.snap)
          THEN /\ runs' = [runs EXCEPT ![k] =
                             [r2 EXCEPT !.i = r.i + 1,
                                        !.sent = Append(r.sent, r.snap[r.i + 1].id)]]
               /\ UNCHANGED <<queue, syncRunning, syncIssue>>
          ELSE /\ queue' = r2.remaining
               /\ IF r.cancelled
                  THEN /\ runs' = [runs EXCEPT ![k] = [r2 EXCEPT !.pc = "idle"]]
                       /\ syncRunning' = syncNowFinally(runs[k].cancelled)
                       /\ UNCHANGED syncIssue
                  ELSE /\ syncIssue' = IF Len(r2.remaining) > 0 THEN "pending" ELSE ""
                       /\ IF ReloadsAfterFlush(r2.processed)
                          THEN /\ runs' = [runs EXCEPT ![k] = [r2 EXCEPT !.pc = "load"]]
                               /\ UNCHANGED syncRunning
                          ELSE /\ runs' = [runs EXCEPT ![k] = [r2 EXCEPT !.pc = "idle"]]
                               /\ syncRunning' = syncNowFinally(runs[k].cancelled)
  /\ UNCHANGED <<dashboard, online, userId, context, lastWs, nextId,
                 showAccessRevokedPrompt, invalidated, lastSave, pushes, loads>>
  /\ UNCHANGED <<members, categories, archiving, deleteRequests, lastReview, accessRequests>>

\* saveQueue when localStorage.setItem throws: the slot keeps its old value
saveQueueFails_partial(q, items) == items

saveQueueFails(q, items) == q

\* The last turn of flushQueue's loop for activation k followed by a
\* saveQueue(remaining) that throws: flushQueue rejects, syncNow goes to its
\* catch (the indicator, unless cancelled) and then finally.
FlushSaveFails(k) ==
  /\ runs[k].pc = "flush"
  /\ runs[k].i = Len(runs[k].snap)
  /\ \E net \in NetOutcomes :
       LET r == runs[k]
           op == r.snap[r.i]
           res == addEntryResult(net, userId, Payload(op))
           r2 == [r EXCEPT !.remaining = KeepFailed(r.remaining, op, res),
                           !.processed = Processed(@, res),
                           !.outcomes = Append(@, res)]
       IN
       /\ Room(net)
       /\ entries' = addEntryRows(net, userId, Payload(op))
       /\ lastSubmit' = Verdict(net, userId, Payload(op))
       /\ queue' = saveQueueFails(queue, r2.remaining)
       /\ syncIssue' = IF r.cancelled THEN syncIssue ELSE "paused"
       /\ runs' = [runs EXCEPT ![k] = [r2 EXCEPT !.pc = "idle"]]
       /\ syncRunning' = syncNowFinally(runs[k].cancelled)
  /\ UNCHANGED <<dashboard, online, userId, context, lastWs, nextId,
                 showAccessRevokedPrompt, invalidated, lastSave, pushes, loads>>
  /\ UNCHANGED <<members, categories, archiving, deleteRequests, lastReview, accessRequests>>

\* syncNow inside `await loadWorkspace(workspaceId, userId)`: the first
\* await of loadWorkspace, getWorkspaceContext, settles; an error goes to
\* syncNow's catch and then finally
RunLoadFetch(k) ==
  /\ runs[k].pc = "load"
  /\ \E net \in {"ok", "neterr"} :
       LET r == runs[k] IN
       IF net = "ok" /\ is_workspace_member(r.ws, userId)
       THEN /\ runs' = [runs EXCEPT ![k].pc = "loaded"]
            /\ UNCHANGED <<syncIssue, syncRunning>>
       ELSE /\ syncIssue' = IF r.cancelled THEN syncIssue ELSE "paused"
            /\ runs' = [runs EXCEPT ![k].pc = "idle"]
            /\ syncRunning' = syncNowFinally(runs[k].cancelled)
  /\ UNCHANGED <<dashboard, online, userId, context, lastWs, queue, nextId,
                 showAccessRevokedPrompt, invalidated, lastSave, lastSubmit, pushes, loads>>
  /\ UNCHANGED serverVars

\* the remaining awaits of that loadWorkspace settle: it sets the context it
\* read (setContext and the last-workspace key), or throws to syncNow's
\* catch; then finally
RunLoadDone(k) ==
  /\ runs[k].pc = "loaded"
  /\ \E net \in {"ok", "neterr"} :
       LET r == runs[k] IN
       IF net = "ok"
       THEN /\ context' = r.ws
            /\ lastWs' = r.ws
            /\ invalidated' = IF r.stale THEN invalidated ELSE FALSE
            /\ runs' = [AfterDeps(runs, online, r.ws, userId) EXCEPT ![k].pc = "idle"]
            /\ UNCHANGED syncIssue
       ELSE /\ syncIssue' = IF r.cancelled THEN syncIssue ELSE "paused"
            /\ runs' = [runs EXCEPT ![k].pc = "idle"]
            /\ UNCHANGED <<context, lastWs, invalidated>>
  /\ syncRunning' = syncNowFinally(runs[k].cancelled)
  /\ UNCHANGED <<dashboard, online, userId, queue, nextId, showAccessRevokedPrompt,
                 lastSave, lastSubmit, pushes, loads>>
  /\ UNCHANGED serverVars

\* --------------------------------------- client: access-change listener
\* the workspace-members-self channel handler, lines 1440-1442
lostAccess_deleteOnly(p) == p.eventType = "DELETE"

lostAccess(p) == p.eventType = "DELETE" \/ p.access_disabled

\* handleAccessRevoked: clearWorkspaceState, "decide", the recovery prompt
handleAccessRevoked ==
  /\ context' = ""
  /\ showAccessRevokedPrompt' = TRUE
  /\ invalidated' = TRUE
  /\ runs' = IF context # "" THEN RevokeRuns(runs, context) ELSE runs

\* listener-started loads whose context was read before the open workspace
\* ws was invalidated
StaleLoads(ls, ws) ==
  {[l EXCEPT !.stale = (l.stale \/ (ws # "" /\ l.got = ws))] : l \in ls}

\* a loadWorkspace / bootstrapWorkspace call that has just been made; ws is
\* the workspace to load, or for a bootstrapWorkspace call made by the
\* listener the workspace that was open when it was made
NewLoad(kind, ws) == [kind |-> kind, ws |-> ws, got |-> "", stale |-> FALSE]

CanStart(l) == l \in loads \/ Cardinality(loads) < MaxLoads

\* delivery of one notification about a workspace_members row of the user
PushDeliver(p) ==
  /\ p \in pushes
  /\ userId # ""
  /\ pushes' = pushes \ {p}
  /\ IF lostAccess(p) /\ p.ws = context
     THEN /\ handleAccessRevoked
          /\ loads' = StaleLoads(loads, context)
     ELSE IF p.ws = context
     THEN /\ CanStart(NewLoad("load", context))
          /\ loads' = loads \cup {NewLoad("load", context)}
          /\ UNCHANGED <<context, showAccessRevokedPrompt, invalidated, runs>>
     ELSE /\ CanStart(NewLoad("boot", context))
          /\ loads' = loads \cup {NewLoad("boot", context)}
          /\ UNCHANGED <<context, showAccessRevokedPrompt, invalidated, runs>>
  /\ UNCHANGED <<dashboard, online, userId, lastWs, queue, nextId, syncRunning, syncIssue, lastSave, lastSubmit>>
  /\ UNCHANGED serverVars

\* the workspaces listUserWorkspaces returns (RLS hides disabled rows)
MyWorkspaces == {w \in Workspaces : is_workspace_member(w, userId)}

\* getWorkspaceContext of a listener-started loadWorkspace(workspaceId,
\* userId) settles: the context is held, or the error reaches the .catch of
\* the handler
LoadFetch(l) ==
  /\ l \in loads /\ l.kind = "load" /\ l.got = ""
  /\ \E net \in {"ok", "neterr"} :
       IF net = "neterr"
       THEN /\ loads' = loads \ {l}
            /\ UNCHANGED <<context, showAccessRevokedPrompt, invalidated, runs>>
       ELSE IF is_workspace_member(l.ws, userId)
       THEN /\ loads' = (loads \ {l}) \cup {[l EXCEPT !.got = l.ws]}
            /\ UNCHANGED <<context, showAccessRevokedPrompt, invalidated, runs>>
       ELSE /\ handleAccessRevoked
            /\ loads' = StaleLoads(loads \ {l}, context)
  /\ UNCHANGED <<dashboard, online, userId, lastWs, queue, nextId, syncRunning, syncIssue,
                 lastSave, lastSubmit, pushes>>
  /\ UNCHANGED serverVars

\* the reads of bootstrapWorkspace(userId) settle: the saved workspace if
\* its context still loads, else the first workspace the user belongs to,
\* else clearWorkspaceState
BootFetch(l) ==
  /\ l \in loads /\ l.kind = "boot" /\ l.got = ""
  /\ \E net \in {"ok", "neterr"} :
       IF net = "neterr"
       THEN /\ loads' = loads \ {l}
            /\ UNCHANGED <<context, runs>>
       ELSE IF lastWs # "" /\ is_workspace_member(lastWs, userId)
       THEN /\ loads' = (loads \ {l}) \cup {[l EXCEPT !.got = lastWs]}
            /\ UNCHANGED <<context, runs>>
       ELSE IF MyWorkspaces = {}
       THEN /\ loads' = loads \ {l}
            /\ context' = ""
            /\ runs' = AfterDeps(runs, online, "", userId)
       ELSE \E w \in MyWorkspaces :
              /\ loads' = (loads \ {l}) \cup {[l EXCEPT !.got = w]}
              /\ UNCHANGED <<context, runs>>
  /\ UNCHANGED <<dashboard, online, userId, lastWs, queue, nextId, syncRunning, syncIssue,
                 showAccessRevokedPrompt, invalidated, lastSave, lastSubmit, pushes>>
  /\ UNCHANGED serverVars

\* the remaining awaits of a listener-started loadWorkspace settle: it sets
\* the context it read and the last-workspace key
LoadDone(l) ==
  /\ l \in loads /\ l.kind = "load" /\ l.got # ""
  /\ loads' = loads \ {l}
  /\ \E net \in {"ok", "neterr"} :
       IF net = "neterr"
       THEN UNCHANGED <<context, lastWs, invalidated, runs>>
       ELSE /\ context' = l.got
            /\ lastWs' = l.got
            /\ invalidated' = IF l.stale THEN invalidated ELSE FALSE
            /\ runs' = AfterDeps(runs, online, l.got, userId)
  /\ UNCHANGED <<dashboard, online, userId, queue, nextId, syncRunning, syncIssue,
                 showAccessRevokedPrompt, lastSave, lastSubmit, pushes>>
  /\ UNCHANGED serverVars

\* the same for the loadWorkspace call inside bootstrapWorkspace
BootDone(l) ==
  /\ l \in loads /\ l.kind = "boot" /\ l.got # ""
  /\ loads' = loads \ {l}
  /\ \E net \in {"ok", "neterr"} :
       IF net = "neterr"
       THEN UNCHANGED <<context, lastWs, invalidated, runs>>
       ELSE /\ context' = l.got
            /\ lastWs' = l.got
            /\ invalidated' = IF l.stale THEN invalidated ELSE FALSE
            /\ runs' = AfterDeps(runs, online, l.got, userId)
  /\ UNCHANGED <<dashboard, online, userId, queue, nextId, syncRunning, syncIssue,
                 showAccessRevokedPrompt, lastSave, lastSubmit, pushes>>
  /\ UNCHANGED serverVars

\* "Open My Workspace" on the recovery prompt
openMyWorkspaceFromPrompt ==
  /\ showAccessRevokedPrompt /\ userId # ""
  /\ showAccessRevokedPrompt' = FALSE
  /\ CanStart(NewLoad("boot", ""))
  /\ loads' = loads \cup {NewLoad("boot", "")}
  /\ UNCHANGED <<dashboard, online, userId, context, lastWs, queue, nextId, syncRunning, runs,
                 syncIssue, invalidated, lastSave, lastSubmit, pushes>>
  /\ UNCHANGED serverVars

\* ------------------------------------------------ server: membership RPCs
\* public.set_workspace_member_access_disabled: the exception it raises
set_access_disabled_check(caller, ws, target, disabled) ==
  IF caller \notin Users THEN "Authentication required"
  ELSE IF ~is_workspace_admin(ws, caller) THEN "Only admin can change workspace access"
  ELSE IF target = caller THEN "Admin cannot disable self"
  ELSE IF members[ws][target].role = "none" THEN "User is not part of this workspace"
  ELSE IF /\ disabled
          /\ members[ws][target].role = "admin"
          /\ ~members[ws][target].access_disabled
          /\ Cardinality(EnabledAdmins(ws)) <= 1
    THEN "Cannot disable the last active admin"
  ELSE "ok"

\* public.remove_workspace_member: the exception it raises
remove_member_check(caller, ws, target) ==
  IF caller \notin Users THEN "Authentication required"
  ELSE IF ~is_workspace_admin(ws, caller) THEN "Only admin can remove users"
  ELSE IF target = caller THEN "Admin cannot remove self"
  ELSE IF members[ws][target].role = "none" THEN "User is not part of this workspace"
  ELSE IF /\ members[ws][target].role = "admin"
          /\ ~members[ws][target].access_disabled
          /\ Cardinality(EnabledAdmins(ws)) <= 1
    THEN "Cannot remove the last active admin from workspace"
  ELSE "ok"

\* its UPDATE of the member row, under the normalize trigger
set_workspace_member_access_disabled_reset(caller, ws, target, disabled) ==
  /\ set_access_disabled_check(caller, ws, target, disabled) = "ok"
  /\ members' = [members EXCEPT ![ws][target] =
                   [EditorRow EXCEPT !.role = members[ws][target].role,
                                     !.access_disabled = disabled]]

set_workspace_member_access_disabled(caller, ws, target, disabled) ==
  /\ set_access_disabled_check(caller, ws, target, disabled) = "ok"
  /\ members' = [members EXCEPT ![ws][target] =
                   normalize_member_permissions([@ EXCEPT !.access_disabled = disabled])]

remove_workspace_member(caller, ws, target) ==
  /\ remove_member_check(caller, ws, target) = "ok"
  /\ members' = [members EXCEPT ![ws][target] = NoRow]

\* services/categories.ts archiveCategory under policy categories_update_admin,
\* with no write to public.entries between its two requests
archiveCategory(c) ==
  /\ categories[c].is_active
  /\ \A k \in 1..Len(entries) : entries[k].cat # c
  /\ categories' = [categories EXCEPT ![c].is_active = FALSE]

\* the first request of archiveCategory: the exact count of the entries of
\* the category that policy entries_select_member lets caller see
EntryCount(caller, c) ==
  IF is_workspace_member(CategoryWorkspace(c), caller)
  THEN Cardinality({k \in 1..Len(entries) : entries[k].cat = c})
  ELSE 0

\* archiveCategory up to its second request: the count came back zero (a
\* positive count throws and nothing is sent)
archiveCategoryCount ==
  /\ \E caller \in Users, c \in CategoryIds :
       /\ categories[c].is_active
       /\ EntryCount(caller, c) = 0
       /\ archiving' = archiving \cup {[by |-> caller, cat |-> c]}
  /\ UNCHANGED clientVars
  /\ UNCHANGED <<members, categories, entries, deleteRequests, lastReview, accessRequests>>

\* its second request: UPDATE categories SET is_active = false for the rows
\* policy categories_update_admin lets the caller update
archiveCategoryUpdate ==
  /\ \E a \in archiving :
       /\ archiving' = archiving \ {a}
       /\ categories' =
            IF can_manage_categories(CategoryWorkspace(a.cat), a.by)
            THEN [categories EXCEPT ![a.cat].is_active = FALSE]
            ELSE categories
  /\ UNCHANGED clientVars
  /\ UNCHANGED <<members, entries, deleteRequests, lastReview, accessRequests>>

\* ------------------------------------------ identities sharing the device
\* hooks/useAuthSession.ts signOut followed by the !userId branch of the
\* profile effect: the workspace state and the banners are cleared; the
\* stored queue is only counted
signOut ==
  /\ userId # ""
  /\ userId' = ""
  /\ context' = ""
  /\ syncIssue' = ""
  /\ showAccessRevokedPrompt' = FALSE
  /\ runs' = CancelRuns(runs)
  /\ UNCHANGED <<dashboard, online, lastWs, queue, nextId, syncRunning, invalidated,
                 lastSave, lastSubmit, pushes, loads>>
  /\ UNCHANGED serverVars

\* a user signs in and bootstrapWorkspace opens the user's workspace, if the
\* user is a member of it
signIn ==
  /\ userId = ""
  /\ online
  /\ \E u \in Users :
       /\ userId' = u
       /\ context' = IF is_workspace_member(ServerWs, u) THEN ServerWs ELSE ""
       /\ lastWs' = IF is_workspace_member(ServerWs, u) THEN ServerWs ELSE lastWs
  /\ runs' = CancelRuns(runs)
  /\ UNCHANGED <<dashboard, online, queue, nextId, syncRunning, syncIssue,
                 showAccessRevokedPrompt, invalidated, lastSave, lastSubmit,
                 pushes, loads>>
  /\ UNCHANGED serverVars

\* ------------------------------------------- the process dies and restarts
\* the rows the server stores for requests that were on the wire: K is the
\* set of flushing activations whose pending insert had reached the server
RECURSIVE InFlightRows(_)
InFlightRows(K) ==
  IF K = {} THEN <<>>
  ELSE LET k == CHOOSE x \in K : \A y \in K : x <= y
           p == Payload(runs[k].snap[runs[k].i])
       IN (IF enforce_entry_rules(userId, p) = "ok" THEN <<NewEntry(p)>> ELSE <<>>)
          \o InFlightRows(K \ {k})

\* The tab or the browser is killed and the app is opened again: React state,
\* refs, timers, pending promises and the realtime socket are gone;
\* localStorage (the queue, the last workspace, the session) is what it was.
\* bootstrapWorkspace then opens the last workspace, or none if it fails.
Crash ==
  /\ \E K \in SUBSET {k \in DOMAIN runs : runs[k].pc = "flush"} :
       /\ Len(entries) + Len(InFlightRows(K)) <= MaxEntries
       /\ entries' = entries \o InFlightRows(K)
  /\ runs' = [k \in DOMAIN runs |-> IdleRun]
  /\ syncRunning' = FALSE
  /\ syncIssue' = ""
  /\ showAccessRevokedPrompt' = FALSE
  /\ invalidated' = FALSE
  /\ pushes' = {}
  /\ loads' = {}
  /\ context' \in {lastWs, ""}
  /\ UNCHANGED <<dashboard, online, userId, lastWs, queue, nextId, lastSave, lastSubmit>>
  /\ UNCHANGED <<members, categories, archiving, deleteRequests, lastReview, accessRequests>>

\* ------------------------------- the device and the admin acting on it
AdminSetsAccess ==
  /\ \E ws \in {ServerWs}, d \in BOOLEAN :
       /\ set_workspace_member_access_disabled(Admin, ws, Me, d)
       /\ LET p == [ws |-> ws, eventType |-> "UPDATE", access_disabled |-> d] IN
          /\ p \in pushes \/ Cardinality(pushes) < MaxPushes
          /\ pushes' = pushes \cup {p}
  /\ UNCHANGED <<dashboard, online, userId, context, lastWs, queue, nextId, syncRunning, runs,
                 syncIssue, showAccessRevokedPrompt, invalidated, lastSave, lastSubmit,
                 loads>>
  /\ UNCHANGED <<categories, archiving, entries, deleteRequests, lastReview, accessRequests>>

AdminRemoves ==
  /\ \E ws \in {ServerWs} :
       /\ remove_workspace_member(Admin, ws, Me)
       /\ LET p == [ws |-> ws, eventType |-> "DELETE", access_disabled |-> FALSE] IN
          /\ p \in pushes \/ Cardinality(pushes) < MaxPushes
          /\ pushes' = pushes \cup {p}
  /\ UNCHANGED <<dashboard, online, userId, context, lastWs, queue, nextId, syncRunning, runs,
                 syncIssue, showAccessRevokedPrompt, invalidated, lastSave, lastSubmit,
                 loads>>
  /\ UNCHANGED <<categories, archiving, entries, deleteRequests, lastReview, accessRequests>>

\* the same change made to the user's row in the other workspace
AdminSetsAccessElsewhere ==
  /\ \E ws \in Workspaces \ {ServerWs}, d \in BOOLEAN :
       /\ set_workspace_member_access_disabled(Admin, ws, Me, d)
       /\ LET p == [ws |-> ws, eventType |-> "UPDATE", access_disabled |-> d] IN
          /\ p \in pushes \/ Cardinality(pushes) < MaxPushes
          /\ pushes' = pushes \cup {p}
  /\ UNCHANGED <<dashboard, online, userId, context, lastWs, queue, nextId, syncRunning, runs,
                 syncIssue, showAccessRevokedPrompt, invalidated, lastSave, lastSubmit,
                 loads>>
  /\ UNCHANGED <<categories, archiving, entries, deleteRequests, lastReview, accessRequests>>

AdminArchivesCategory ==
  /\ \E c \in CategoryIds : archiveCategory(c)
  /\ UNCHANGED clientVars
  /\ UNCHANGED <<members, archiving, entries, deleteRequests, lastReview, accessRequests>>

\* ----------------------------------------------------- the device model
InitMembers ==
  [w \in Workspaces |->
     [u \in Users |->
        IF u = Admin THEN normalize_member_permissions([EditorRow EXCEPT !.role = "admin"])
        ELSE EditorRow]]

InitCategories ==
  [c \in CategoryIds |->
     [type |-> IF c = "c1" THEN "income" ELSE "expense", is_active |-> TRUE]]

InitWith(ms) ==
  /\ online \in BOOLEAN
  /\ userId = Me
  /\ context = "w1"
  /\ lastWs = "w1"
  /\ syncRunning = FALSE
  /\ runs = [k \in 1..MaxRuns |-> IdleRun]
  /\ syncIssue = ""
  /\ showAccessRevokedPrompt = FALSE
  /\ invalidated = FALSE
  /\ lastSave = NoSave
  /\ lastSubmit = NoSubmit
  /\ pushes = {}
  /\ loads = {}
  /\ dashboard = NoDashboard
  /\ members = ms
  /\ categories = InitCategories
  /\ archiving = {}
  /\ entries = <<>>
  /\ deleteRequests = <<>>
  /\ lastReview = [prior |-> "none", result |-> "none"]
  /\ accessRequests = <<>>

InitCommon == InitWith(InitMembers)

\* the queue and the sync effect of one device
Init == InitCommon /\ queue = <<>> /\ nextId = 1

Next ==
  \/ SetOnline
  \/ saveQuickEntry
  \/ syncNow
  \/ \E k \in 1..MaxRuns : FlushStep(k)
  \/ \E k \in 1..MaxRuns : RunLoadFetch(k)
  \/ \E k \in 1..MaxRuns : RunLoadDone(k)
  \/ AdminArchivesCategory

Spec == Init /\ [][Next]_vars

\* The same device with its scheduling: the sync effect calls syncNow when
\* it starts and on every tick of its 15 s interval timer, and every awaited
\* call (the handler of flushQueue, the reads of loadWorkspace) settles.
SpecRetry ==
  /\ Init
  /\ [][Next]_vars
  /\ WF_vars(syncNow)
  /\ \A k \in 1..MaxRuns :
       WF_vars(FlushStep(k)) /\ WF_vars(RunLoadFetch(k)) /\ WF_vars(RunLoadDone(k))

\* the listener, the sync effect and the admin on a device that starts
\* with operations left in its durable queue by an earlier offline session
QueuedOp(n, ch) == [id |-> n, ws |-> "w1", dir |-> ch.dir, cat |-> ch.cat, by |-> Me]

InitListener ==
  /\ InitCommon
  /\ queue = <<QueuedOp(1, [dir |-> "cash_in", cat |-> "c1"]),
               QueuedOp(2, [dir |-> "cash_in", cat |-> "c2"])>>
  /\ nextId = 3

NextListener ==
  \/ SetOnline
  \/ syncNow
  \/ \E k \in 1..MaxRuns : FlushStep(k)
  \/ \E k \in 1..MaxRuns : RunLoadFetch(k)
  \/ \E k \in 1..MaxRuns : RunLoadDone(k)
  \/ \E p \in pushes : PushDeliver(p)
  \/ \E l \in loads : LoadFetch(l)
  \/ \E l \in loads : BootFetch(l)
  \/ \E l \in loads : LoadDone(l)
  \/ \E l \in loads : BootDone(l)
  \/ openMyWorkspaceFromPrompt
  \/ AdminSetsAccess
  \/ AdminRemoves

SpecListener == InitListener /\ [][NextListener]_vars

\* ============================================== the server on its own
\* Any authenticated user calling the data API.

\* services/entries.ts addEntry called online by caller
SubmitEntryBy(caller) ==
  \E ch \in QuickChoices :
    LET p == [ws |-> ServerWs, dir |-> ch.dir, cat |-> ch.cat, by |-> caller] IN
    /\ Room("ok")
    /\ enforce_entry_rules(caller, p) = "ok"
    /\ entries' = addEntryRows("ok", caller, p)

SubmitEntry ==
  /\ \E caller \in Users : SubmitEntryBy(caller)
  /\ UNCHANGED clientVars
  /\ UNCHANGED <<members, categories, archiving, deleteRequests, lastReview, accessRequests>>

\* the unique partial index delete_requests_one_pending_per_entry_idx lets
\* a new pending row for entry e in
delete_requests_one_pending_off(e) == TRUE

delete_requests_one_pending(e) ==
  \A r \in 1..Len(deleteRequests) :
    ~(deleteRequests[r].entry = e /\ deleteRequests[r].status = "pending")

\* services requestDelete: insert under policy delete_requests_insert_member,
\* the entry foreign key and delete_requests_one_pending_per_entry_idx
requestDeleteBy(caller) ==
  \E e \in 1..Len(entries) :
    /\ Len(deleteRequests) < MaxRequests
    /\ is_workspace_member(entries[e].ws, caller)
    /\ delete_requests_one_pending(e)
    /\ deleteRequests' =
         Append(deleteRequests,
                [ws |-> entries[e].ws, entry |-> e, requested_by |-> caller,
                 status |-> "pending", reviewed_by |-> ""])

requestDelete ==
  /\ \E caller \in Users : requestDeleteBy(caller)
  /\ UNCHANGED clientVars
  /\ UNCHANGED <<members, categories, archiving, entries, lastReview, accessRequests>>

\* trigger trg_delete_requests_review on a row the UPDATE matched, with the
\* UPDATE path of enforce_entry_rules for the entry it soft-deletes
handle_delete_request_review_reopen(caller, old, status) ==
  IF status = "pending" THEN "status must move to approved or rejected"
  ELSE IF /\ status = "approved"
          /\ entries[old.entry].status = "active"
          /\ ~can_delete_entries(old.ws, caller)
    THEN "No permission to delete this entry"
  ELSE IF /\ status = "approved"
          /\ entries[old.entry].status = "active"
          /\ ~categories[entries[old.entry].cat].is_active
    THEN "Category is invalid or inactive"
  ELSE "ok"

handle_delete_request_review(caller, old, status) ==
  IF old.status # "pending" THEN "Delete request already finalized"
  ELSE IF status = "pending" THEN "status must move to approved or rejected"
  ELSE IF /\ status = "approved"
          /\ entries[old.entry].status = "active"
          /\ ~can_delete_entries(old.ws, caller)
    THEN "No permission to delete this entry"
  ELSE IF /\ status = "approved"
          /\ entries[old.entry].status = "active"
          /\ ~categories[entries[old.entry].cat].is_active
    THEN "Category is invalid or inactive"
  ELSE "ok"

\* `if new.status = 'approved'` in the review trigger: whether the review
\* goes on to the UPDATE of public.entries
review_deletes_always(status) == TRUE

review_deletes(status) == status = "approved"

\* the UPDATE of public.entries inside the review trigger (approval only,
\* and only an entry that is still active)
soft_delete_entry_skip(es, e, by) == es

soft_delete_entry(es, e, by) ==
  IF es[e].status = "active"
  THEN [es EXCEPT ![e].status = "deleted", ![e].deleted_at = TRUE,
                  ![e].deleted_by = by]
  ELSE es

ReviewMatches_anyRow(caller, r) == deleteRequests[r].status = "pending"

\* the rows the UPDATE of reviewDeleteRequest matches: .eq("id", requestId)
\* .eq("status", "pending"), as far as policy delete_requests_update_admin
\* lets the caller see them
ReviewMatches(caller, r) ==
  /\ deleteRequests[r].status = "pending"
  /\ can_delete_entries(deleteRequests[r].ws, caller)

\* services reviewDeleteRequest(requestId, status, note): an UPDATE that
\* matches no row is not an error
reviewDeleteRequestBy(caller) ==
  \E r \in 1..Len(deleteRequests), status \in {"approved", "rejected"} :
     LET old == deleteRequests[r]
         res == IF ReviewMatches(caller, r)
                THEN handle_delete_request_review(caller, old, status)
                ELSE "ok"
         applied == ReviewMatches(caller, r) /\ res = "ok"
     IN
     /\ lastReview' = [prior |-> old.status, result |-> res]
     /\ deleteRequests' =
          IF applied
          THEN [deleteRequests EXCEPT ![r].status = status, ![r].reviewed_by = caller]
          ELSE deleteRequests
     /\ entries' =
          IF applied /\ review_deletes(status)
          THEN soft_delete_entry(entries, old.entry, caller)
          ELSE entries

reviewDeleteRequest ==
  /\ \E caller \in Users : reviewDeleteRequestBy(caller)
  /\ UNCHANGED clientVars
  /\ UNCHANGED <<members, categories, archiving, accessRequests>>

\* what an UPDATE of a delete request can ask for
RequestPatches ==
  [status : {"pending", "approved", "rejected"}, reviewed_by : Users \cup {""}]

\* an UPDATE of one delete request sent to the data API by caller, without
\* the status filter of reviewDeleteRequest: policy
\* delete_requests_update_admin, then the review trigger, which fills
\* reviewed_by and soft-deletes the entry on approval
updateDeleteRequestBy(caller) ==
  \E r \in 1..Len(deleteRequests), patch \in RequestPatches :
    LET old == deleteRequests[r]
        reviewer == IF patch.reviewed_by = "" THEN caller ELSE patch.reviewed_by
    IN
    /\ can_delete_entries(old.ws, caller)
    /\ handle_delete_request_review(caller, old, patch.status) = "ok"
    /\ deleteRequests' =
         [deleteRequests EXCEPT ![r].status = patch.status, ![r].reviewed_by = reviewer]
    /\ entries' =
         IF review_deletes(patch.status)
         THEN soft_delete_entry(entries, old.entry, reviewer)
         ELSE entries

updateDeleteRequest ==
  /\ \E caller \in Users : updateDeleteRequestBy(caller)
  /\ UNCHANGED clientVars
  /\ UNCHANGED <<members, categories, archiving, lastReview, accessRequests>>

\* services/entries.ts deleteEntryDirect: the can_delete_entries RPC, then
\* an UPDATE of the active entry under the UPDATE path of enforce_entry_rules
deleteEntryDirectBy(caller) ==
  \E e \in 1..Len(entries) :
    /\ can_delete_entries(entries[e].ws, caller)
    /\ entries[e].status = "active"
    /\ categories[entries[e].cat].is_active
    /\ entries' = [entries EXCEPT ![e].status = "deleted", ![e].deleted_at = TRUE,
                                  ![e].deleted_by = caller]

deleteEntryDirect ==
  /\ \E caller \in Users : deleteEntryDirectBy(caller)
  /\ UNCHANGED clientVars
  /\ UNCHANGED <<members, categories, archiving, deleteRequests, lastReview, accessRequests>>

\* what an UPDATE of an entry can ask for: status, deleted_at (set or
\* null) and deleted_by (a user or null)
EntryPatches ==
  [status : {"active", "deleted"}, deleted_at : BOOLEAN, deleted_by : Users \cup {""}]

\* the end of enforce_entry_rules, which settles deleted_at and deleted_by
\* from the status, followed by constraint entries_deleted_state_chk: the row
\* that is stored, or NoEntry if the constraint refuses it
NoEntry == [status |-> "refused"]

entries_deleted_state_chk(row) ==
  \/ row.status = "active" /\ ~row.deleted_at /\ row.deleted_by = ""
  \/ row.status = "deleted" /\ row.deleted_at /\ row.deleted_by # ""

StoredEntry_raw(caller, row) == row

StoredEntry(caller, row) ==
  LET n == IF row.status = "active"
           THEN [row EXCEPT !.deleted_at = FALSE, !.deleted_by = ""]
           ELSE [row EXCEPT !.deleted_at = TRUE,
                            !.deleted_by = IF @ = "" THEN caller ELSE @]
  IN IF entries_deleted_state_chk(n) THEN n ELSE NoEntry

\* trigger trg_entries_enforce_rules, the UPDATE path, for caller changing
\* row old as patch says: the exception it raises
enforce_entry_update_mutable(caller, old, patch) ==
  IF patch.status = "deleted" /\ old.status # "deleted"
       /\ ~can_delete_entries(old.ws, caller)
    THEN "No permission to delete this entry"
  ELSE IF ~(CategoryWorkspace(old.cat) = old.ws /\ categories[old.cat].is_active)
    THEN "Category is invalid or inactive"
  ELSE "ok"

enforce_entry_update(caller, old, patch) ==
  IF old.status = "deleted" THEN "Deleted entries are immutable"
  ELSE IF patch.status = "deleted" /\ old.status # "deleted"
       /\ ~can_delete_entries(old.ws, caller)
    THEN "No permission to delete this entry"
  ELSE IF ~(CategoryWorkspace(old.cat) = old.ws /\ categories[old.cat].is_active)
    THEN "Category is invalid or inactive"
  ELSE "ok"

\* an UPDATE of one entry sent to the data API by caller: policy
\* entries_update_member decides whether the row is matched, then the
\* trigger and the constraint decide whether it is written
updateEntryBy(caller) ==
  \E e \in 1..Len(entries), patch \in EntryPatches :
    LET old == entries[e]
        new == [old EXCEPT !.status = patch.status, !.deleted_at = patch.deleted_at,
                           !.deleted_by = patch.deleted_by]
        row == StoredEntry(caller, new)
    IN
    /\ is_workspace_member(old.ws, caller)
    /\ enforce_entry_update(caller, old, patch) = "ok"
    /\ row # NoEntry
    /\ entries' = [entries EXCEPT ![e] = row]

updateEntry ==
  /\ \E caller \in Users : updateEntryBy(caller)
  /\ UNCHANGED clientVars
  /\ UNCHANGED <<members, categories, archiving, deleteRequests, lastReview, accessRequests>>

\* services updateWorkspaceMemberRole(workspaceId, target, role,
\* allowDeleteForEditor) by caller: a direct UPDATE of the member row under
\* policy workspace_members_update_admin and the normalize trigger
updateWorkspaceMemberRoleBy(caller, target, role, allowDelete) ==
  /\ can_manage_users(ServerWs, caller)
  /\ members[ServerWs][target].role # "none"
  /\ members' =
       [members EXCEPT ![ServerWs][target] =
          normalize_member_permissions(
            IF role = "admin"
            THEN [@ EXCEPT !.role = "admin", !.can_delete_entries = TRUE,
                           !.can_manage_categories = TRUE,
                           !.can_manage_users = TRUE, !.dashboard_scope = "full"]
            ELSE [@ EXCEPT !.role = "editor", !.can_delete_entries = allowDelete,
                           !.can_manage_categories = FALSE,
                           !.can_manage_users = FALSE,
                           !.dashboard_scope = "shift"])]

updateWorkspaceMemberRole ==
  /\ \E caller \in Users, target \in Users, role \in {"admin", "editor"},
        allowDelete \in BOOLEAN :
       updateWorkspaceMemberRoleBy(caller, target, role, allowDelete)
  /\ UNCHANGED clientVars
  /\ UNCHANGED <<categories, archiving, entries, deleteRequests, lastReview, accessRequests>>

\* the INSERT policies of public.workspace_members: workspace_members_insert_admin
\* of the base schema, and none since the request-only migration dropped it
workspace_members_insert_admin(ws, caller) == can_manage_users(ws, caller)

workspace_members_insert_policy(ws, caller) == FALSE

\* a write to public.workspace_members sent to the data API by a client:
\* an INSERT of a row for a user who has none, or the UPDATE of
\* updateWorkspaceMemberRole
writeWorkspaceMember ==
  /\ \E caller \in Users, target \in Users, role \in {"admin", "editor"},
        allowDelete \in BOOLEAN :
       \/ /\ members[ServerWs][target].role = "none"
          /\ workspace_members_insert_policy(ServerWs, caller)
          /\ members' =
               [members EXCEPT ![ServerWs][target] =
                  normalize_member_permissions(
                    [EditorRow EXCEPT !.role = role, !.can_delete_entries = allowDelete])]
       \/ updateWorkspaceMemberRoleBy(caller, target, role, allowDelete)
  /\ UNCHANGED clientVars
  /\ UNCHANGED <<categories, archiving, entries, deleteRequests, lastReview, accessRequests>>

setWorkspaceMemberAccessDisabled ==
  /\ \E caller \in Users, target \in Users, d \in BOOLEAN :
       set_workspace_member_access_disabled(caller, ServerWs, target, d)
  /\ UNCHANGED clientVars
  /\ UNCHANGED <<categories, archiving, entries, deleteRequests, lastReview, accessRequests>>

revokeWorkspaceMember ==
  /\ \E caller \in Users, target \in Users :
       remove_workspace_member(caller, ServerWs, target)
  /\ UNCHANGED clientVars
  /\ UNCHANGED <<categories, archiving, entries, deleteRequests, lastReview, accessRequests>>

\* public.confirm_account_deletion with the caller's pending token: deletes
\* every membership row of the caller
confirm_account_deletion ==
  /\ \E u \in Users :
       /\ \E w \in Workspaces : members[w][u].role # "none"
       /\ members' = [w \in Workspaces |-> [members[w] EXCEPT ![u] = NoRow]]
  /\ UNCHANGED clientVars
  /\ UNCHANGED <<categories, archiving, entries, deleteRequests, lastReview, accessRequests>>

\* ------------------------------------------- server: access requests
\* what an admin proposes in the grant form: the role with the two flags
ProposedGrants ==
  {[role |-> "admin", can_delete_entries |-> FALSE, can_manage_categories |-> FALSE],
   [role |-> "editor", can_delete_entries |-> TRUE, can_manage_categories |-> FALSE],
   [role |-> "editor", can_delete_entries |-> FALSE, can_manage_categories |-> TRUE]}

\* public.request_workspace_access_by_contact: the exception it raises (the
\* contact is resolved to a registered user)
request_access_check(caller, ws, target) ==
  IF caller \notin Users THEN "Authentication required"
  ELSE IF ~is_workspace_admin(ws, caller) THEN "Only admin can request new user access"
  ELSE IF target \notin Users THEN "User not registered"
  ELSE IF target = caller THEN "You are already part of this workspace"
  ELSE IF members[ws][target].role # "none" THEN "User already has workspace access"
  ELSE "ok"

\* its UPDATE of the pending requests of (workspace, target)
cancel_pending_as_rejected(rs, ws, target, by) ==
  [k \in DOMAIN rs |->
     IF rs[k].ws = ws /\ rs[k].target = target /\ rs[k].status = "pending"
     THEN [rs[k] EXCEPT !.status = "rejected", !.reviewed_by = by]
     ELSE rs[k]]

cancel_pending(rs, ws, target, by) ==
  [k \in DOMAIN rs |->
     IF rs[k].ws = ws /\ rs[k].target = target /\ rs[k].status = "pending"
     THEN [rs[k] EXCEPT !.status = "cancelled", !.reviewed_by = by]
     ELSE rs[k]]

\* the unique partial index workspace_access_requests_one_pending_idx lets a
\* new pending row for (workspace, target) into table rs
access_requests_one_pending(rs, ws, target) ==
  \A k \in DOMAIN rs :
    ~(rs[k].ws = ws /\ rs[k].target = target /\ rs[k].status = "pending")

\* the row its INSERT adds
NewAccessRequest(caller, ws, target, g) ==
  [ws |-> ws, target |-> target, requested_by |-> caller, role |-> g.role,
   can_delete_entries |-> IF g.role = "admin" THEN TRUE ELSE g.can_delete_entries,
   can_manage_categories |-> IF g.role = "admin" THEN TRUE ELSE g.can_manage_categories,
   status |-> "pending", reviewed_by |-> ""]

request_workspace_access_by_contact ==
  /\ \E caller \in Users, target \in Users, g \in ProposedGrants :
       LET cancelled == cancel_pending(accessRequests, ServerWs, target, caller) IN
       /\ Len(accessRequests) < MaxAccessRequests
       /\ request_access_check(caller, ServerWs, target) = "ok"
       /\ access_requests_one_pending(cancelled, ServerWs, target)
       /\ accessRequests' =
            Append(cancelled, NewAccessRequest(caller, ServerWs, target, g))
  /\ UNCHANGED clientVars
  /\ UNCHANGED <<members, categories, archiving, entries, deleteRequests, lastReview>>

\* public.respond_workspace_access_request, decision accept: the INSERT ...
\* ON CONFLICT DO UPDATE of the member row, under the normalize trigger
accept_membership_skip(ms, req) == ms

accept_membership(ms, req) ==
  [ms EXCEPT ![req.ws][req.target] =
     normalize_member_permissions(
       [role |-> req.role,
        access_disabled |-> IF @.role = "none" THEN FALSE ELSE @.access_disabled,
        can_delete_entries |-> IF req.role = "admin" THEN TRUE ELSE req.can_delete_entries,
        can_manage_categories |-> IF req.role = "admin" THEN TRUE ELSE req.can_manage_categories,
        can_manage_users |-> (req.role = "admin"),
        dashboard_scope |-> IF req.role = "admin" THEN "full" ELSE "shift"])]

\* its SELECT ... WHERE id = _request_id AND target_user_id = auth.uid() AND
\* status = 'pending': the exception it raises
respond_check_anyStatus(caller, r) ==
  IF caller \notin Users THEN "Authentication required"
  ELSE IF ~(accessRequests[r].target = caller)
    THEN "Request not found or already handled"
  ELSE "ok"

respond_check(caller, r) ==
  IF caller \notin Users THEN "Authentication required"
  ELSE IF ~(accessRequests[r].target = caller /\ accessRequests[r].status = "pending")
    THEN "Request not found or already handled"
  ELSE "ok"

respond_workspace_access_request ==
  /\ \E caller \in Users, r \in 1..Len(accessRequests), decision \in {"accept", "reject"} :
       /\ respond_check(caller, r) = "ok"
       /\ IF decision = "accept"
          THEN /\ members' = accept_membership(members, accessRequests[r])
               /\ accessRequests' =
                    [accessRequests EXCEPT ![r].status = "accepted", ![r].reviewed_by = caller]
          ELSE /\ accessRequests' =
                    [accessRequests EXCEPT ![r].status = "rejected", ![r].reviewed_by = caller]
               /\ UNCHANGED members
  /\ UNCHANGED clientVars
  /\ UNCHANGED <<categories, archiving, entries, deleteRequests, lastReview>>

NextServer ==
  \/ confirm_account_deletion
  \/ SubmitEntry
  \/ requestDelete
  \/ reviewDeleteRequest
  \/ updateWorkspaceMemberRole
  \/ setWorkspaceMemberAccessDisabled
  \/ revokeWorkspaceMember

InitServer == InitCommon /\ online /\ queue = <<>> /\ nextId = 1

SpecServer == InitServer /\ [][NextServer]_vars

\* the members of the workspace and the requests that admit new ones
NextAccess ==
  \/ request_workspace_access_by_contact
  \/ respond_workspace_access_request
  \/ revokeWorkspaceMember
  \/ updateWorkspaceMemberRole

SpecAccess == InitServer /\ [][NextAccess]_vars

\* the same with every write to the member table a client can send
NextGrant ==
  \/ request_workspace_access_by_contact
  \/ respond_workspace_access_request
  \/ revokeWorkspaceMember
  \/ writeWorkspaceMember

SpecGrant == InitServer /\ [][NextGrant]_vars

\* a workspace run by two admins: entries, their deletion and the
\* management of the members
TwoAdmins ==
  [w \in Workspaces |->
     [u \in Users |-> normalize_member_permissions([EditorRow EXCEPT !.role = "admin"])]]

InitTeam == InitWith(TwoAdmins) /\ online /\ queue = <<>> /\ nextId = 1

NextTeam ==
  \/ SubmitEntry
  \/ requestDelete
  \/ reviewDeleteRequest
  \/ setWorkspaceMemberAccessDisabled
  \/ revokeWorkspaceMember

SpecTeam == InitTeam /\ [][NextTeam]_vars

\* the delete requests of the workspace under every write the data API
\* accepts
NextRequests ==
  \/ SubmitEntry
  \/ requestDelete
  \/ reviewDeleteRequest
  \/ updateDeleteRequest
  \/ setWorkspaceMemberAccessDisabled

SpecRequests == InitServer /\ [][NextRequests]_vars

\* the entries of the workspace under every write the data API accepts
NextEntries ==
  \/ SubmitEntry
  \/ requestDelete
  \/ reviewDeleteRequest
  \/ deleteEntryDirect
  \/ updateEntry
  \/ setWorkspaceMemberAccessDisabled

SpecEntries == InitServer /\ [][NextEntries]_vars

\* the access-change listener of a device with an empty queue, the admin
\* changing the user's access in either workspace
NextPush ==
  \/ \E p \in pushes : PushDeliver(p)
  \/ \E l \in loads : LoadFetch(l)
  \/ \E l \in loads : BootFetch(l)
  \/ \E l \in loads : LoadDone(l)
  \/ \E l \in loads : BootDone(l)
  \/ openMyWorkspaceFromPrompt
  \/ AdminSetsAccess
  \/ AdminSetsAccessElsewhere

SpecPush == InitServer /\ [][NextPush]_vars

\* the device model with users signing out and in
NextIdentity ==
  \/ SetOnline
  \/ saveQuickEntry
  \/ syncNow
  \/ \E k \in 1..MaxRuns : FlushStep(k)
  \/ \E k \in 1..MaxRuns : RunLoadFetch(k)
  \/ \E k \in 1..MaxRuns : RunLoadDone(k)
  \/ signOut
  \/ signIn

SpecIdentity == Init /\ [][NextIdentity]_vars

\* the device model with a local store that can refuse a write
NextStorage ==
  \/ SetOnline
  \/ saveQuickEntry
  \/ syncNow
  \/ \E k \in 1..MaxRuns : FlushStep(k)
  \/ \E k \in 1..MaxRuns : FlushSaveFails(k)
  \/ \E k \in 1..MaxRuns : RunLoadFetch(k)
  \/ \E k \in 1..MaxRuns : RunLoadDone(k)
  \/ AdminArchivesCategory

SpecStorage == Init /\ [][NextStorage]_vars

\* the device model with process crashes
NextCrash ==
  \/ SetOnline
  \/ saveQuickEntry
  \/ syncNow
  \/ \E k \in 1..MaxRuns : FlushStep(k)
  \/ \E k \in 1..MaxRuns : RunLoadFetch(k)
  \/ \E k \in 1..MaxRuns : RunLoadDone(k)
  \/ AdminArchivesCategory
  \/ Crash

SpecCrash == Init /\ [][NextCrash]_vars

\* the device, online with two operations queued earlier, writing entries
\* directly and by replay of its queue, while the admin archives categories
\* and disables or enables members
InitSubmit == InitListener /\ online

NextSubmit ==
  \/ saveQuickEntry
  \/ syncNow
  \/ \E k \in 1..MaxRuns : FlushStep(k)
  \/ \E k \in 1..MaxRuns : RunLoadFetch(k)
  \/ \E k \in 1..MaxRuns : RunLoadDone(k)
  \/ AdminArchivesCategory
  \/ setWorkspaceMemberAccessDisabled

SpecSubmit == InitSubmit /\ [][NextSubmit]_vars

\* the entries of the workspace and their deletion, direct or by request
NextReview ==
  \/ SubmitEntry
  \/ requestDelete
  \/ reviewDeleteRequest
  \/ deleteEntryDirect
  \/ setWorkspaceMemberAccessDisabled

SpecReview == InitServer /\ [][NextReview]_vars

\* the categories of the workspace being archived while members write and
\* delete entries
NextCategories ==
  \/ SubmitEntry
  \/ archiveCategoryCount
  \/ archiveCategoryUpdate
  \/ requestDelete
  \/ reviewDeleteRequest
  \/ deleteEntryDirect

SpecCategories == InitServer /\ [][NextCategories]_vars

\* members writing entries while their access is switched off and on and
\* their roles and capabilities are adjusted
NextDisable ==
  \/ SubmitEntry
  \/ updateWorkspaceMemberRole
  \/ setWorkspaceMemberAccessDisabled

SpecDisable == InitServer /\ [][NextDisable]_vars

\* ===================================================== lib/format.ts: dates
\* Instants are minutes since 1970-01-01T00:00Z.
WindowStart == 19722 * 1440          \* 2023-12-31T00:00Z
Instants == {WindowStart + 30 * k : k \in 0..MaxTicks}
TimeZones == {"Asia/Kolkata", "UTC", "America/New_York", "Mars/Olympus"}

\* the offset from UTC, in minutes, the runtime's zone data gives a zone it
\* knows during the window
UtcOffset(tz) ==
  CASE tz = "Asia/Kolkata" -> 330
    [] tz = "America/New_York" -> 0 - 300
    [] OTHER -> 0

\* resolveTimeZone: Intl.DateTimeFormat throws a RangeError for a zone the
\* runtime does not know, and UTC is used
resolveTimeZone(tz) ==
  IF tz \in {"Asia/Kolkata", "UTC", "America/New_York"} THEN tz ELSE "UTC"

\* the proleptic Gregorian date of day number z (days since 1970-01-01), as
\* Intl.DateTimeFormat and Date compute it
CivilFromDays(z0) ==
  LET z == z0 + 719468
      era == z \div 146097
      doe == z - era * 146097
      yoe == (doe - doe \div 1460 + doe \div 36524 - doe \div 146096) \div 365
      doy == doe - (365 * yoe + yoe \div 4 - yoe \div 100)
      mp == (5 * doy + 2) \div 153
      d == doy - (153 * mp + 2) \div 5 + 1
      m == IF mp < 10 THEN mp + 3 ELSE mp - 9
      y == yoe + era * 400 + (IF m <= 2 THEN 1 ELSE 0)
  IN [year |-> y, month |-> m, day |-> d]

\* Date.UTC(year, month - 1, day), in minutes
DateUTC(y, m, d) ==
  LET y2 == IF m <= 2 THEN y - 1 ELSE y
      era == y2 \div 400
      yoe == y2 - era * 400
      mp == IF m > 2 THEN m - 3 ELSE m + 9
      doy == (153 * mp + 2) \div 5 + d - 1
      doe == yoe * 365 + yoe \div 4 - yoe \div 100 + doy
  IN (era * 146097 + doe - 719468) * 1440

\* getDatePartsInZone: formatToParts of the instant in the resolved zone
getDatePartsInZone_utc(date, timeZone) == CivilFromDays(date \div 1440)

getDatePartsInZone(date, timeZone) ==
  CivilFromDays((date + UtcOffset(resolveTimeZone(timeZone))) \div 1440)

\* String(n).padStart(2, "0")
padStart2(n) == IF n < 10 THEN "0" \o ToString(n) ELSE ToString(n)

DateKey(y, m, d) == ToString(y) \o "-" \o padStart2(m) \o "-" \o padStart2(d)

\* dateKeyInTimeZone(value, timeZone) for a value that parses to an instant
dateKeyInTimeZone(value, timeZone) ==
  LET parts == getDatePartsInZone(value, resolveTimeZone(timeZone))
  IN DateKey(parts.year, parts.month, parts.day)

\* pages/DashboardPage.tsx: an entry dated entry_at is keyed to a day in the
\* workspace's timezone
KeyEntry ==
  /\ \E tz \in TimeZones, at \in Instants :
       dashboard' = [timezone |-> tz, entry_at |-> at,
                     key |-> dateKeyInTimeZone(at, tz)]
  /\ UNCHANGED <<online, userId, context, lastWs, queue, nextId, syncRunning, runs,
                 syncIssue, showAccessRevokedPrompt, invalidated, lastSave, lastSubmit,
                 pushes, loads>>
  /\ UNCHANGED serverVars

NextDates == KeyEntry

SpecDates == InitServer /\ [][NextDates]_vars

\* C6: every workspace has at least one enabled admin in every reachable
\* state.
C6_AlwaysEnabledAdmin ==
  \A w \in Workspaces : Cardinality(EnabledAdmins(w)) >= 1

\* C7: a review of a delete request that was already approved or rejected
\* returns the already-finalized error to the caller.
C7_AlreadyFinalized ==
  lastReview.prior \in {"approved", "rejected"} =>
    lastReview.result = "Delete request already finalized"

\* ================================================================ claims
Range(q) == {q[j] : j \in 1..Len(q)}
Completes(k) == runs[k].pc = "flush" /\ runs'[k].pc # "flush"

\* C1: when a flushQueue call completes, the handler was invoked once per
\* queued operation in queue order, and the queue it leaves holds exactly
\* the operations whose handler call failed, in their original order.
C1_FlushPartition ==
  [][\A k \in 1..MaxRuns :
       Completes(k) =>
         /\ runs'[k].sent = Ids(runs'[k].snap)
         /\ Len(runs'[k].outcomes) = Len(runs'[k].snap)
         /\ queue' = FailedOf(runs'[k].snap, runs'[k].outcomes)]_vars

\* enqueue(A), enqueue(B), a flush succeeding for A and failing for B: [B]
C1_Witness ==
  \E k \in 1..MaxRuns :
    /\ runs[k].pc # "flush"
    /\ Len(runs[k].snap) = 2
    /\ runs[k].outcomes = <<"ok", "validation">>
    /\ queue = <<runs[k].snap[2]>>

\* C2: an operation leaves the durable queue only in the step in which a
\* flush completes whose handler call for that very operation succeeded.
C2_NoSilentDrop ==
  [][\A j \in 1..Len(queue) :
       (\A j2 \in 1..Len(queue') : queue'[j2].id # queue[j].id) =>
         \E k \in 1..MaxRuns :
           /\ Completes(k)
           /\ \E m \in 1..Len(runs'[k].snap) :
                /\ runs'[k].snap[m].id = queue[j].id
                /\ runs'[k].outcomes[m] = "ok"]_vars

\* C5: every persisted entry pairs cash_in with a category that was of
\* type income, and cash_out with one of type expense, when it was written.
C5_DirectionMatchesCategory ==
  \A j \in 1..Len(entries) :
    /\ (entries[j].dir = "cash_in") <=> (entries[j].catType = "income")
    /\ (entries[j].dir = "cash_out") <=> (entries[j].catType = "expense")

\* a flush persisted one queued entry and had another rejected
C5_Witness ==
  /\ Len(entries) > 0
  /\ \E k \in 1..MaxRuns :
       /\ runs[k].processed > 0
       /\ \E m \in 1..Len(runs[k].outcomes) : runs[k].outcomes[m] = "validation"

\* C8 as stated: an operation whose submission failed with a validation or
\* authorization error is not kept for retry.
C8_Original ==
  \A k \in 1..MaxRuns :
    \A m \in 1..Len(runs[k].outcomes) :
      runs[k].outcomes[m] \in {"validation", "authorization"} =>
        runs[k].snap[m] \notin Range(runs[k].remaining)

\* C8 amended: the flush keeps every operation whose handler call failed,
\* whatever the class of the error, and an interactive submission that was
\* attempted online is never queued.
C8_KeepsEveryFailure ==
  /\ \A k \in 1..MaxRuns :
       runs[k].remaining =
         FailedOf(SubSeq(runs[k].snap, 1, Len(runs[k].outcomes)), runs[k].outcomes)
  /\ lastSave.online => ~lastSave.enqueued

\* a flush completed and left a rejected (not transient) operation queued
C8_Witness ==
  \E k \in 1..MaxRuns :
    /\ runs[k].pc = "idle"
    /\ Len(runs[k].outcomes) > 0
    /\ runs[k].outcomes[Len(runs[k].outcomes)] = "validation"
    /\ queue # <<>>
    /\ queue[Len(queue)] = runs[k].snap[Len(runs[k].snap)]

C3_OneRunAtATime == Cardinality(ActiveRuns) <= 1 /\ (ActiveRuns # {} => syncRunning)

\* the effect restarted while a run is still flushing, and its syncNow call
\* (enabled here, with a non-empty queue) has to be skipped
C3_Witness ==
  /\ online /\ context # "" /\ userId # "" /\ queueSize > 0
  /\ \E k \in ActiveRuns : runs[k].pc = "flush" /\ runs[k].cancelled

\* C4: handling a notification that the user's membership row of the open
\* workspace was deleted or disabled clears the workspace context and shows
\* the recovery prompt, whatever the sync effect is doing.
C4_PushDeauthorizes ==
  [][\A p \in pushes :
       ( /\ p \notin pushes'
         /\ context # "" /\ p.ws = context
         /\ (p.eventType = "DELETE" \/ p.access_disabled) ) =>
       (context' = "" /\ showAccessRevokedPrompt')]_vars

\* de-authorized by a disable while a flush was waiting on its handler
C4_Witness ==
  /\ context = "" /\ showAccessRevokedPrompt
  /\ members["w1"][Me].access_disabled
  /\ \E k \in 1..MaxRuns : runs[k].pc = "flush" /\ runs[k].deauth

\* C11: a queue flush starts only while the device is online with a
\* signed-in user and a loaded workspace context, and after the listener
\* has invalidated the membership only once a context read after the
\* invalidation has been set.
C11_FlushNeedsReload ==
  [][\A k \in 1..MaxRuns :
       (runs[k].pc # "flush" /\ runs'[k].pc = "flush") =>
         (online /\ userId # "" /\ context # "" /\ ~invalidated)]_vars

\* C12: delivery of queued creations is at-least-once: when a queued create
\* is persisted by the server but its handler call fails (the response is
\* lost), the operation is kept for the next flush, and every flush submits
\* the whole stored queue again, so the entry can be persisted twice.
C12_LostResponseKept ==
  [][\A k \in 1..MaxRuns :
       /\ ( /\ runs[k].pc = "flush"
            /\ Len(entries') > Len(entries)
            /\ runs'[k].processed = runs[k].processed ) =>
              /\ runs[k].snap[runs[k].i] \in Range(runs'[k].remaining)
              /\ Completes(k) => runs[k].snap[runs[k].i] \in Range(queue')
       /\ (runs[k].pc # "flush" /\ runs'[k].pc = "flush") =>
              runs'[k].snap = queue]_vars

\* queued operation 1 is persisted twice: once with its response lost, and
\* again by the flush that finally saw it succeed
C12_Witness ==
  /\ Len(entries) = 2
  /\ entries[1] = entries[2]
  /\ \E k \in 1..MaxRuns :
       /\ runs[k].outcomes # <<>>
       /\ runs[k].snap[1].id = 1
       /\ runs[k].outcomes[1] = "ok"

\* a handler call of a flush settles with a failure
FailedSubmission ==
  \E k \in 1..MaxRuns :
    /\ runs[k].pc = "flush"
    /\ Len(runs'[k].outcomes) > Len(runs[k].outcomes)
    /\ runs'[k].outcomes[Len(runs'[k].outcomes)] # "ok"

\* C13: if from some point on the device stays online with a signed-in user
\* and an open workspace, and from some point on no submission of a queued
\* operation fails, the queue eventually is and stays empty, by the retries
\* of the sync effect alone.
C13_QueueDrains ==
  ( /\ <>[](online /\ context # "" /\ userId # "")
    /\ <>[][~FailedSubmission]_vars )
    => <>[](queue = <<>>)

\* both enqueued operations have left the queue, the older one by a flush
\* that retried it on its own
C13_Witness ==
  /\ queue = <<>> /\ nextId = 3 /\ online
  /\ \E k \in 1..MaxRuns :
       /\ runs[k].pc = "idle"
       /\ Len(runs[k].snap) = 1
       /\ runs[k].snap[1].id = 1
       /\ runs[k].outcomes = <<"ok">>

\* C14: approving a pending delete request is one step: in the state it
\* leads to the request is approved with the reviewer recorded and the
\* referenced entry is deleted, with deleted_by the reviewer if the entry
\* was active before; a request is never approved while its entry is active.
C14_ApprovalDeletesEntry ==
  [][\A r \in 1..Len(deleteRequests') :
       deleteRequests'[r].status = "approved" =>
         /\ deleteRequests'[r].reviewed_by \in Users
         /\ entries'[deleteRequests'[r].entry].status = "deleted"
         /\ ( /\ r <= Len(deleteRequests)
              /\ deleteRequests[r].status = "pending"
              /\ entries[deleteRequests[r].entry].status = "active" ) =>
                entries'[deleteRequests'[r].entry].deleted_by =
                  deleteRequests'[r].reviewed_by]_vars

\* a member's request was approved by someone else, who is recorded as the
\* one who deleted the entry
C14_Witness ==
  \E r \in 1..Len(deleteRequests) :
    /\ deleteRequests[r].status = "approved"
    /\ deleteRequests[r].requested_by # deleteRequests[r].reviewed_by
    /\ entries[deleteRequests[r].entry].status = "deleted"
    /\ entries[deleteRequests[r].entry].deleted_by = deleteRequests[r].reviewed_by

\* C15: at most one delete request per entry is pending in every reachable
\* state, whichever members ask for the deletion of the same entry.
C15_OnePendingPerEntry ==
  \A e \in 1..Len(entries) :
    Cardinality({r \in 1..Len(deleteRequests) :
                   deleteRequests[r].entry = e /\ deleteRequests[r].status = "pending"}) <= 1

\* a request for an entry is pending while the other member, who may also
\* insert requests, could only add a second one for the same entry
C15_Witness ==
  /\ Len(deleteRequests) < MaxRequests
  /\ \E r \in 1..Len(deleteRequests), u \in Users :
       /\ deleteRequests[r].status = "pending"
       /\ deleteRequests[r].requested_by # u
       /\ is_workspace_member(deleteRequests[r].ws, u)
       /\ Len(entries) = 1

PendingAccess(rs, ws, target) ==
  {k \in DOMAIN rs : rs[k].ws = ws /\ rs[k].target = target /\ rs[k].status = "pending"}

\* C16: at most one access request per (workspace, target user) is pending
\* in every reachable state, and a request that was pending for a target
\* when a new one is issued for it is cancelled in that same step.
C16_OnePendingAccessRequest ==
  [][/\ \A w \in Workspaces, t \in Users :
          Cardinality(PendingAccess(accessRequests', w, t)) <= 1
     /\ \A r \in 1..Len(accessRequests) :
          ( /\ accessRequests[r].status = "pending"
            /\ Len(accessRequests') > Len(accessRequests)
            /\ accessRequests'[Len(accessRequests')].target = accessRequests[r].target
            /\ accessRequests'[Len(accessRequests')].ws = accessRequests[r].ws ) =>
              /\ accessRequests'[r].status = "cancelled"
              /\ accessRequests'[Len(accessRequests')].status = "pending"]_vars

\* a pending request was superseded: cancelled by the admin who issued the
\* newer one, which is pending
C16_Witness ==
  /\ Len(accessRequests) = 2
  /\ accessRequests[1].status = "cancelled"
  /\ accessRequests[1].reviewed_by = accessRequests[2].requested_by
  /\ accessRequests[2].status = "pending"
  /\ accessRequests[2].target = accessRequests[1].target

\* C17 as stated: no state has an accepted request whose target has no
\* membership row.
C17_Original ==
  \A r \in 1..Len(accessRequests) :
    accessRequests[r].status = "accepted" =>
      members[accessRequests[r].ws][accessRequests[r].target].role # "none"

\* C17 amended: the step in which the target accepts a pending request also
\* writes the target's membership row with the role and flags of the
\* request; only a later removal can leave an accepted request without a row.
C17_AcceptWritesMembership ==
  [][\A r \in 1..Len(accessRequests) :
       (accessRequests[r].status = "pending" /\ accessRequests'[r].status = "accepted") =>
         LET req == accessRequests[r]
             row == members'[req.ws][req.target]
         IN /\ accessRequests'[r].reviewed_by = req.target
            /\ row.role = req.role
            /\ row.can_delete_entries = req.can_delete_entries
            /\ row.can_manage_categories = req.can_manage_categories
            /\ row.can_manage_users = (req.role = "admin")]_vars

\* a removed member was invited back as an editor who may delete, accepted,
\* and has exactly that row
C17_Witness ==
  \E r \in 1..Len(accessRequests) :
    /\ accessRequests[r].status = "accepted"
    /\ accessRequests[r].role = "editor"
    /\ members[accessRequests[r].ws][accessRequests[r].target].role = "editor"
    /\ members[accessRequests[r].ws][accessRequests[r].target].can_delete_entries

\* C18: every membership row with role admin has the three capability
\* flags set and the full dashboard scope, in every reachable state.
C18_AdminHasAllFlags ==
  \A w \in Workspaces, u \in Users :
    members[w][u].role = "admin" =>
      /\ members[w][u].can_delete_entries
      /\ members[w][u].can_manage_categories
      /\ members[w][u].can_manage_users
      /\ members[w][u].dashboard_scope = "full"

\* a request for role admin was accepted and its target is an admin
C18_Witness ==
  \E r \in 1..Len(accessRequests) :
    /\ accessRequests[r].status = "accepted"
    /\ accessRequests[r].role = "admin"
    /\ members[accessRequests[r].ws][accessRequests[r].target].role = "admin"

\* a membership-mutation call of u whose target is u itself
SelfTargeted(u) ==
  \/ \E role \in {"admin", "editor"}, allowDelete \in BOOLEAN :
       updateWorkspaceMemberRoleBy(u, u, role, allowDelete)
  \/ \E d \in BOOLEAN : set_workspace_member_access_disabled(u, ServerWs, u, d)
  \/ remove_workspace_member(u, ServerWs, u)

\* C19: a role update, disable/enable or revoke whose target is the caller
\* leaves the caller's membership row as it was.
C19_NoSelfTargeting ==
  [][\A u \in Users :
       SelfTargeted(u) => members'[ServerWs][u] = members[ServerWs][u]]_vars

Disabled(u) ==
  members[ServerWs][u].role # "none" /\ members[ServerWs][u].access_disabled

\* an entry write, a delete request or its review (whose approval deletes
\* the entry), a disable, enable or revoke of a member, attempted by u
AttemptBy(u) ==
  \/ SubmitEntryBy(u) /\ UNCHANGED <<members, deleteRequests>>
  \/ requestDeleteBy(u) /\ UNCHANGED <<members, entries>>
  \/ reviewDeleteRequestBy(u) /\ UNCHANGED members
  \/ /\ UNCHANGED <<entries, deleteRequests>>
     /\ \/ \E t \in Users, d \in BOOLEAN :
             set_workspace_member_access_disabled(u, ServerWs, t, d)
        \/ \E t \in Users : remove_workspace_member(u, ServerWs, t)

C10_StopsAfterDeauth ==
  [][\A k \in 1..MaxRuns :
       (runs[k].pc = "flush" /\ runs[k].deauth) =>
         Len(runs'[k].sent) = Len(runs[k].sent)]_vars

\* the category of payload p exists in p's workspace and is active
ValidCategory(p) == CategoryWorkspace(p.cat) = p.ws /\ categories[p.cat].is_active

\* the fixed mapping: cash_in with income, cash_out with expense
DirectionAgrees(p) ==
  \/ p.dir = "cash_in" /\ categories[p.cat].type = "income"
  \/ p.dir = "cash_out" /\ categories[p.cat].type = "expense"

\* what the claim says the server answers to caller's insert of p
SubmitVerdict(caller, p) ==
  IF ~ValidCategory(p) THEN "InvalidCategory"
  ELSE IF ~DirectionAgrees(p) THEN "DirectionMismatch"
  ELSE IF ~is_workspace_member(p.ws, caller) THEN "Unauthorized"
  ELSE "ok"

\* the step answers the insert of p by verdict v: the entry is appended
\* with status active if v is ok, and no entry changes otherwise
Answered(p, v) ==
  /\ lastSubmit' = v
  /\ IF v = "ok"
     THEN /\ Len(entries') = Len(entries) + 1
          /\ SubSeq(entries', 1, Len(entries)) = entries
          /\ entries'[Len(entries')].status = "active"
          /\ entries'[Len(entries')].cat = p.cat
          /\ entries'[Len(entries')].dir = p.dir
          /\ entries'[Len(entries')].by = p.by
     ELSE entries' = entries

\* C21: every write attempt that reaches the server, replayed from the queue
\* or made directly, is answered from the server state of that moment:
\* InvalidCategory if the category is missing or inactive, else
\* DirectionMismatch if type and direction disagree, else Unauthorized if the
\* caller is not an enabled member, else the entry is persisted with status
\* active; an attempt that does not reach the server changes nothing.
C21_SubmitPrecedence ==
  [][/\ \A k \in 1..MaxRuns :
          (runs[k].pc = "flush" /\ Len(runs'[k].outcomes) = Len(runs[k].outcomes) + 1) =>
            LET p == Payload(runs[k].snap[runs[k].i]) IN
            \/ Answered(p, SubmitVerdict(userId, p))
            \/ /\ runs'[k].outcomes[Len(runs'[k].outcomes)] = "network"
               /\ UNCHANGED <<lastSubmit, entries>>
     /\ (lastSave' # lastSave /\ lastSave'.online) =>
          \/ \E ch \in QuickChoices :
               LET p == [ws |-> context, dir |-> ch.dir, cat |-> ch.cat, by |-> userId] IN
               Answered(p, SubmitVerdict(userId, p))
          \/ /\ lastSave'.result = "network"
             /\ UNCHANGED <<lastSubmit, entries>>]_vars

\* a replayed operation was refused for its category although the device's
\* user is disabled as well, after an earlier write had been accepted
C21_Witness ==
  /\ lastSubmit = "InvalidCategory"
  /\ ~is_workspace_member(ServerWs, userId)
  /\ Len(entries) > 0
  /\ \E k \in 1..MaxRuns :
       /\ runs[k].outcomes # <<>>
       /\ runs[k].outcomes[Len(runs[k].outcomes)] = "validation"

\* C22: an enqueue is in the durable slot in the step in which it is
\* reported, a completing flush stores the queue it computed, and a crash of
\* the process, like every step that is not the completion of a flush,
\* leaves every queued operation in the slot.
C22_QueueSurvivesCrash ==
  [][/\ (lastSave' # lastSave /\ lastSave'.enqueued) =>
          /\ Len(queue') = Len(queue) + 1
          /\ SubSeq(queue', 1, Len(queue)) = queue
          /\ Payload(queue'[Len(queue')]).ws = context
     /\ \A k \in 1..MaxRuns :
          (Completes(k) /\ ~Crash) => queue' = runs'[k].remaining
     /\ (Crash \/ \A k \in 1..MaxRuns : ~Completes(k)) =>
          \A j \in 1..Len(queue) : queue[j] \in Range(queue')]_vars

\* the process was restarted while it held an operation that no flush had
\* submitted yet: nothing is running and the operation is still queued
C22_Witness ==
  /\ queue # <<>>
  /\ lastSave.enqueued
  /\ lastSubmit = NoSubmit
  /\ \A k \in 1..MaxRuns : runs[k] = IdleRun
  /\ context = ""

\* C23 as stated: when the flush call throws, the queue is untouched and the
\* retry-pending indicator is shown.
C23_Original ==
  [][\A k \in 1..MaxRuns :
       FlushSaveFails(k) => (queue' = queue /\ syncIssue' = "paused")]_vars

\* C23: when the flush call throws, the stored queue is what it was, so no
\* operation is removed whatever its handler call returned; the
\* retry-pending indicator is shown if the run has not been cancelled
\* meanwhile, and is left as it was otherwise.
C23_ThrowKeepsQueue ==
  [][\A k \in 1..MaxRuns :
       FlushSaveFails(k) =>
         /\ queue' = queue
         /\ \A j \in 1..Len(runs[k].snap) :
              runs[k].snap[j] \in Range(queue) => runs[k].snap[j] \in Range(queue')
         /\ ~runs[k].cancelled => syncIssue' = "paused"
         /\ runs[k].cancelled => syncIssue' = syncIssue
         /\ ~syncRunning']_vars

\* a flush whose handler calls all succeeded threw on saving: the queue
\* still holds the operation and the indicator is up
C23_Witness ==
  /\ syncIssue = "paused"
  /\ \E k \in 1..MaxRuns :
       /\ runs[k].pc = "idle"
       /\ runs[k].snap # <<>>
       /\ runs[k].processed = Len(runs[k].snap)
       /\ queue = runs[k].snap

\* activation k puts an operation on the wire in this step
Submits(k) ==
  /\ runs'[k].pc = "flush"
  /\ runs[k].pc # "flush" \/ runs'[k].i > runs[k].i

\* C24: an operation is submitted only in a session of the identity that
\* enqueued it, and it leaves the queue only in such a session.
C24_NoCrossIdentityReplay ==
  [][/\ \A k \in 1..MaxRuns :
          Submits(k) => runs'[k].snap[runs'[k].i].by = userId
     /\ \A j \in 1..Len(queue) :
          queue[j].by # userId => queue[j] \in Range(queue')]_vars

\* C25: while a workspace is open, a notification about the user's
\* membership in another workspace, and the bootstrapWorkspace call it
\* starts, leave the open workspace and the recovery prompt as they are.
C25_OtherWorkspacePushKeepsContext ==
  [][/\ \A p \in pushes :
          (context # "" /\ p.ws # context /\ PushDeliver(p)) =>
            (context' = context /\ UNCHANGED showAccessRevokedPrompt)
     /\ \A l \in loads :
          (l.kind = "boot" /\ l.ws # "" /\ l.ws = context
             /\ (BootFetch(l) \/ BootDone(l))) =>
            (context' = context /\ UNCHANGED showAccessRevokedPrompt)]_vars

\* C26: an entry whose status is deleted is the same row after every step,
\* whatever is attempted on it.
C26_DeletedIsImmutable ==
  [][\A j \in 1..Len(entries) :
       entries[j].status = "deleted" => entries'[j] = entries[j]]_vars

\* a deleted entry whose own delete request has since been approved, while
\* another entry is still active
C26_Witness ==
  /\ \E r \in 1..Len(deleteRequests) :
       /\ deleteRequests[r].status = "approved"
       /\ entries[deleteRequests[r].entry].status = "deleted"
       /\ entries[deleteRequests[r].entry].deleted_by # deleteRequests[r].reviewed_by
  /\ \E j \in 1..Len(entries) : entries[j].status = "active"

\* C27: every entry is either active with deleted_at and deleted_by both
\* null, or deleted with both set.
C27_NoPartialDelete ==
  \A j \in 1..Len(entries) :
    /\ entries[j].status \in {"active", "deleted"}
    /\ (entries[j].status = "active") <=>
         (~entries[j].deleted_at /\ entries[j].deleted_by = "")
    /\ (entries[j].status = "deleted") <=>
         (entries[j].deleted_at /\ entries[j].deleted_by # "")

\* one entry deleted and one active
C27_Witness ==
  /\ \E j \in 1..Len(entries) : entries[j].status = "deleted"
  /\ \E j \in 1..Len(entries) : entries[j].status = "active"
  /\ deleteRequests = <<>>

\* C28: a delete request that is approved or rejected is the same row after
\* every step, and a request changes status only from pending to approved or
\* from pending to rejected.
C28_FinalizedIsImmutable ==
  [][\A r \in 1..Len(deleteRequests) :
       /\ deleteRequests[r].status \in {"approved", "rejected"} =>
            deleteRequests'[r] = deleteRequests[r]
       /\ deleteRequests'[r].status # deleteRequests[r].status =>
            /\ deleteRequests[r].status = "pending"
            /\ deleteRequests'[r].status \in {"approved", "rejected"}]_vars

\* one request approved and one rejected, both for the same entry
C28_Witness ==
  \E r1, r2 \in 1..Len(deleteRequests) :
    /\ deleteRequests[r1].status = "rejected"
    /\ deleteRequests[r2].status = "approved"
    /\ deleteRequests[r1].entry = deleteRequests[r2].entry

\* C29: in the step in which a pending delete request becomes rejected, the
\* entry it refers to keeps its status, deleted_at and deleted_by (and every
\* other entry is unchanged too); of the request only the status and the
\* reviewer change.
C29_RejectionLeavesEntry ==
  [][\A r \in 1..Len(deleteRequests) :
       (deleteRequests[r].status = "pending" /\ deleteRequests'[r].status = "rejected") =>
         /\ entries' = entries
         /\ deleteRequests'[r] =
              [deleteRequests[r] EXCEPT !.status = "rejected",
                                        !.reviewed_by = deleteRequests'[r].reviewed_by]
         /\ \A q \in 1..Len(deleteRequests) : q # r => deleteRequests'[q] = deleteRequests[q]]_vars

\* a request was rejected and its entry is still active
C29_Witness ==
  \E r \in 1..Len(deleteRequests) :
    /\ deleteRequests[r].status = "rejected"
    /\ deleteRequests[r].reviewed_by # ""
    /\ entries[deleteRequests[r].entry].status = "active"
    /\ ~entries[deleteRequests[r].entry].deleted_at

C31_NoInactiveReferenced ==
  \A k \in 1..Len(entries) : categories[entries[k].cat].is_active

\* C32: a review attempt by a caller who is not an enabled member holding
\* can_delete_entries (or an admin) changes no delete request and no entry:
\* the request stays pending and the referenced entry is as it was.
C32_OnlyReviewersDecide ==
  [][\A caller \in Users :
       ( /\ ~can_delete_entries(ServerWs, caller)
         /\ (reviewDeleteRequestBy(caller) \/ updateDeleteRequestBy(caller)) )
         => UNCHANGED <<deleteRequests, entries>>]_vars

\* the requester, an editor without the capability who has been disabled,
\* tried to review: every request is still pending and every entry active
C32_Witness ==
  /\ Len(deleteRequests) >= 1
  /\ \A r \in 1..Len(deleteRequests) :
       /\ deleteRequests[r].status = "pending"
       /\ deleteRequests[r].requested_by = Me
  /\ \A e \in 1..Len(entries) : entries[e].status = "active"
  /\ members[ServerWs][Me].access_disabled
  /\ ~members[ServerWs][Me].can_delete_entries
  /\ lastReview.prior = "pending"

\* C33: a step that switches a member's access off or on changes nothing
\* but that member's access_disabled flag: the row keeps its role and
\* capability flags, every other row and every entry (with its created_by)
\* is as before, so switching it back gives the row the member had.
C33_DisableOnlyFlipsFlag ==
  [][\A w \in Workspaces, u \in Users :
       ( /\ members[w][u].role # "none"
         /\ members'[w][u].role # "none"
         /\ members'[w][u].access_disabled # members[w][u].access_disabled ) =>
           /\ members' = [members EXCEPT ![w][u].access_disabled = ~@]
           /\ entries' = entries]_vars

\* an editor who was given can_delete_entries and has written an entry is
\* disabled, with the capability and the entry still recorded
C33_Witness ==
  /\ members[ServerWs][Me].access_disabled
  /\ members[ServerWs][Me].role = "editor"
  /\ members[ServerWs][Me].can_delete_entries
  /\ \E e \in 1..Len(entries) : entries[e].by = Me

\* C34 as stated: whenever the flush of a run returns having processed at
\* least one operation, that run goes on to reload the workspace data.
C34_Original ==
  [][\A k \in 1..MaxRuns :
       (Completes(k) /\ runs'[k].processed > 0) => runs'[k].pc = "load"]_vars

\* C34 amended: when the flush of a run returns, the run goes on to reload
\* the workspace data exactly if it processed at least one operation and
\* has not been cancelled while the flush was in flight; a cancelled run
\* ends there without a reload.
C34_ReloadUnlessCancelled ==
  [][\A k \in 1..MaxRuns :
       Completes(k) =>
         /\ (runs'[k].pc = "load") <=> (runs'[k].processed > 0 /\ ~runs[k].cancelled)
         /\ runs'[k].pc \in {"load", "idle"}]_vars

\* a run that uploaded a queued operation is reloading the workspace, and
\* the other operation it submitted was refused
C34_Witness ==
  \E k \in 1..MaxRuns :
    /\ runs[k].pc = "load"
    /\ runs[k].processed = 1
    /\ Len(runs[k].snap) = 2
    /\ ~runs[k].cancelled

\* C35: in a workspace with timezone Asia/Kolkata an entry dated
\* 2024-01-01T19:00:00Z is keyed to 2024-01-02, and in general the date key
\* names the calendar day that contains the instant shifted by the offset
\* of the workspace's timezone.
C35_DateKeyIsLocalDay ==
  dashboard # NoDashboard =>
    /\ (dashboard.timezone = "Asia/Kolkata" /\ dashboard.entry_at = DateUTC(2024, 1, 1) + 19 * 60)
          => dashboard.key = "2024-01-02"
    /\ dashboard.timezone \in {"Asia/Kolkata", "UTC", "America/New_York"} =>
          \E y \in 2023..2024, m \in 1..12, d \in 1..31 :
            LET local == dashboard.entry_at + UtcOffset(dashboard.timezone) IN
            /\ dashboard.key = DateKey(y, m, d)
            /\ DateUTC(y, m, d) <= local
            /\ local < DateUTC(y, m, d) + 1440

\* the scenario of the claim: 19:00 UTC on 1 January, keyed in Asia/Kolkata
C35_Witness ==
  /\ dashboard.timezone = "Asia/Kolkata"
  /\ dashboard.entry_at = 19723 * 1440 + 19 * 60
  /\ dashboard.key = "2024-01-02"

\* C36: once the client has been de-authorized from the open workspace, the
\* context stays cleared until a load that read the membership after the
\* de-authorization sets it; a load that was in flight does not restore it.
C36_NoStaleRestore == invalidated => context = ""

\* C37: an active entry can be soft-deleted by every member who holds
\* can_delete_entries, directly or by approving its pending delete request,
\* whether or not the entry's category is active.
C37_DeletableWhateverCategory ==
  \A caller \in Users :
    can_delete_entries(ServerWs, caller) =>
      /\ \A e \in 1..Len(entries) :
           entries[e].status = "active" =>
             enforce_entry_update(caller, entries[e],
               [status |-> "deleted", deleted_at |-> TRUE, deleted_by |-> caller]) = "ok"
      /\ \A r \in 1..Len(deleteRequests) :
           (deleteRequests[r].status = "pending"
              /\ entries[deleteRequests[r].entry].status = "active") =>
             handle_delete_request_review(caller, deleteRequests[r], "approved") = "ok"

\* C38: a response to an access request succeeds exactly if the caller is
\* the request's target and the request is pending: a request becomes
\* accepted or rejected only from pending and by its target, a request that
\* is accepted, rejected or cancelled never changes again, and membership
\* rows change with the requests only in the step that accepts one.
C38_RespondOnlyPendingByTarget ==
  [][/\ \A caller \in Users, r \in 1..Len(accessRequests) :
          (respond_check(caller, r) = "ok") <=>
            (accessRequests[r].target = caller /\ accessRequests[r].status = "pending")
     /\ \A r \in 1..Len(accessRequests) :
          /\ r <= Len(accessRequests')
          /\ accessRequests[r].status # "pending" => accessRequests'[r] = accessRequests[r]
          /\ accessRequests'[r].status \in {"accepted", "rejected"} =>
               \/ accessRequests'[r] = accessRequests[r]
               \/ /\ accessRequests[r].status = "pending"
                  /\ accessRequests'[r].reviewed_by = accessRequests[r].target
     /\ (accessRequests' # accessRequests /\ members' # members) =>
          \E r \in 1..Len(accessRequests) :
            /\ accessRequests[r].status = "pending"
            /\ accessRequests'[r].status = "accepted"
            /\ members' = accept_membership(members, accessRequests[r])]_vars

\* a request superseded by a newer one stays cancelled while the newer one
\* has been accepted by its target
C38_Witness ==
  /\ Len(accessRequests) = 2
  /\ accessRequests[1].status = "cancelled"
  /\ accessRequests[2].status = "accepted"
  /\ accessRequests[2].reviewed_by = accessRequests[2].target
  /\ accessRequests[1].target = accessRequests[2].target

\* C39: when a flush during which nothing was enqueued returns, processed +
\* failed is the length the queue had when the flush started, failed is the
\* length of the queue it leaves, and the queue has not grown.
C39_FlushCounts ==
  [][\A k \in 1..MaxRuns :
       (Completes(k) /\ queue = runs[k].snap) =>
         LET processed == runs'[k].processed
             failed == Len(runs'[k].remaining)
         IN /\ processed + failed = Len(runs[k].snap)
            /\ failed = Len(queue')
            /\ Len(queue') <= Len(queue)]_vars

\* a flush of two operations returned {processed: 1, failed: 1} and left
\* one operation in the queue
C39_Witness ==
  \E k \in 1..MaxRuns :
    /\ runs[k].pc # "flush"
    /\ Len(runs[k].snap) = 2
    /\ runs[k].processed = 1
    /\ Len(runs[k].remaining) = 1
    /\ Len(queue) = 1

\* C40: whenever a reconciliation run ends - after the flush, by a flush
\* that threw, by a reload that threw, cancelled or not - the
\* run-in-progress flag is clear, so the flag is set only while some run is
\* still in progress.
C40_FlagClearedOnExit ==
  [][/\ \A k \in 1..MaxRuns :
          (runs[k].pc # "idle" /\ runs'[k].pc = "idle") => ~syncRunning'
     /\ syncRunning' => \E k \in 1..MaxRuns : runs'[k].pc # "idle"]_vars

\* a run that was cancelled mid-flight has ended with operations still
\* queued, the flag is clear and the next run can start
C40_Witness ==
  /\ ~syncRunning
  /\ queue # <<>>
  /\ online /\ context # "" /\ userId # ""
  /\ \E k \in 1..MaxRuns :
       /\ runs[k].pc = "idle"
       /\ runs[k].cancelled
       /\ runs[k].outcomes # <<>>

====
